---- MODULE Spec2Model ----
(***************************************************************************)
(* Model of the tradeai ticket store (backend/db.py) and of the Flask      *)
(* handlers of the manual-confirmation workflow (backend/app.py).          *)
(*                                                                         *)
(* The SQLite database is the committed content of three tables: tickets   *)
(* (keyed by ticket_id), approvals and rejections (rows in rowid order).   *)
(* Every db.py function opens its own connection, so every call sees the   *)
(* committed content and nothing else.                                     *)
(***************************************************************************)
EXTENDS Integers, Sequences, FiniteSets, TLC

VARIABLES
    tickets,          \* table tickets: ticket_id -> row
    approvals,        \* table approvals: sequence of rows, in rowid order
    rejections,       \* table rejections: sequence of rows, in rowid order
    clock,            \* latest reading of datetime.now(timezone.utc) stored in a row
    result,           \* outcome of the last operation's call on the store, if it made one
    performed,        \* history: the audit actions in the order they committed
    conn,             \* per caller: the call it is inside, its locals and where it stands
    writer,           \* the caller whose connection holds the write lock, or 0
    pending_tickets,  \* app._pending_tickets: ticket_id -> ticket dict
    execution_log,    \* app._execution_log
    response,         \* the last HTTP response of the app
    DEMO_MODE,        \* app.DEMO_MODE, read from the environment at import
    calc              \* the last call of a pure function: its name, inputs and output

storeVars == <<tickets, approvals, rejections, clock, result, performed>>

connVars == <<conn, writer>>

appVars == <<pending_tickets, execution_log, response, DEMO_MODE>>

vars == <<tickets, approvals, rejections, clock, result, performed,
          conn, writer, pending_tickets, execution_log, response, DEMO_MODE,
          calc>>

(***************************************************************************)
(* Bounds of the model.                                                    *)
(***************************************************************************)
MaxTickets == 2
MaxClock == 1
NumCallers == 2

TicketIds == 1..MaxTickets
Callers == 1..NumCallers
Times == 0..MaxClock

NoValue == [kind |-> "None"]

(***************************************************************************)
(* datetime.isoformat().  The clock counts half seconds.  isoformat()      *)
(* prints the seconds with two digits and leaves the fraction out when     *)
(* the microsecond field is 0, so 0 -> "00+", 1 -> "00.5+", 2 -> "01+".   *)
(* A text is a sequence of characters.                                     *)
(***************************************************************************)
Digit(n) == CASE n = 0 -> "0" [] n = 1 -> "1" [] n = 2 -> "2" [] n = 3 -> "3"
              [] n = 4 -> "4" [] n = 5 -> "5" [] n = 6 -> "6" [] n = 7 -> "7"
              [] n = 8 -> "8" [] OTHER -> "9"

isoformat(t) ==
    LET sec == t \div 2
        micro == t % 2
    IN  <<Digit((sec \div 10) % 10), Digit(sec % 10)>>
        \o (IF micro = 0 THEN <<>> ELSE <<".", "5">>)
        \o <<"+">>

\* Code point of a character, as str.__lt__ and SQLite's BINARY collation
\* compare them.
Ord(c) == CASE c = "+" -> 43 [] c = "." -> 46 [] c = "0" -> 48 [] c = "1" -> 49
            [] c = "2" -> 50 [] c = "3" -> 51 [] c = "4" -> 52 [] c = "5" -> 53
            [] c = "6" -> 54 [] c = "7" -> 55 [] c = "8" -> 56 [] OTHER -> 57

RECURSIVE StrLess(_, _)
StrLess(a, b) ==
    IF b = <<>> THEN FALSE
    ELSE IF a = <<>> THEN TRUE
    ELSE IF Ord(Head(a)) # Ord(Head(b)) THEN Ord(Head(a)) < Ord(Head(b))
    ELSE StrLess(Tail(a), Tail(b))

(***************************************************************************)
(* Ticket dicts.  A dict is a sequence of <<key, value>> pairs in          *)
(* insertion order, each key once.  A value is a str, an object that       *)
(* json cannot serialise (a datetime), or a nested gate dict.              *)
(***************************************************************************)
Str(s) == [kind |-> "str", repr |-> s]
Obj(s) == [kind |-> "obj", repr |-> s]
Gate(b) == [kind |-> "gate", passed |-> b]

Keys(d) == {d[i][1] : i \in 1..Len(d)}

\* dict.get(key, default)
Get(d, key, default) ==
    IF key \in Keys(d)
    THEN d[CHOOSE i \in 1..Len(d) : d[i][1] = key][2]
    ELSE default

\* Order of the keys, as sorted() orders the key strings used here.
KeyRank(k) == CASE k = "max_loss" -> 0 [] k = "regime_gate" -> 1 [] k = "risk_gate" -> 2
                [] k = "status" -> 3 [] k = "strategy" -> 4 [] k = "symbol" -> 5
                [] k = "ticket_id" -> 6 [] k = "timestamp" -> 7 [] OTHER -> 8

RECURSIVE SortByKey(_)
SortByKey(d) ==
    IF d = <<>> THEN <<>>
    ELSE LET i == CHOOSE i \in 1..Len(d) :
                     \A j \in 1..Len(d) : KeyRank(d[i][1]) <= KeyRank(d[j][1])
             rest == [j \in 1..(Len(d) - 1) |-> IF j < i THEN d[j] ELSE d[j + 1]]
         IN  <<d[i]>> \o SortByKey(rest)

\* The JSON text of one value.  default=str turns an object into the JSON
\* string of str(object); a str is written as a JSON string.
JsonValue(v) ==
    CASE v.kind = "str" -> <<"\"", v.repr, "\"">>
      [] v.kind = "obj" -> <<"\"", v.repr, "\"">>
      [] v.kind = "int" -> <<v.repr>>
      [] OTHER -> <<"{passed:", v.passed, "}">>

\* json.dumps(d, sort_keys=sort, default=str)
json_dumps(d, sort) ==
    LET s == IF sort THEN SortByKey(d) ELSE d
    IN  [i \in 1..Len(s) |-> <<s[i][1], JsonValue(s[i][2])>>]

\* hashlib.sha256(text).hexdigest(): collision free on the texts of the model.
sha256(text) == <<"sha256", text>>

compute_ticket_hash_Unsorted(ticket_dict) == sha256(json_dumps(ticket_dict, FALSE))
compute_ticket_hash(ticket_dict) == sha256(json_dumps(ticket_dict, TRUE))

IntVal(n) == [kind |-> "int", repr |-> n]

\* The dicts the model passes to insert_ticket: for every ticket id the test
\* suite's dict with a datetime value added, and for id 1 the same content
\* in the opposite key order as well.
DictA(t) ==
    <<<<"ticket_id", IntVal(t)>>, <<"underlying", Str("SPY")>>,
      <<"strategy", Str("x")>>, <<"timestamp", Obj("d0")>>>>
DictB(t) ==
    <<<<"timestamp", Obj("d0")>>, <<"strategy", Str("x")>>,
      <<"underlying", Str("SPY")>>, <<"ticket_id", IntVal(t)>>>>

TicketDicts == {DictA(t) : t \in TicketIds} \cup {DictB(1)}

\* A ticket proposed again under an id in use, with other content.
DictC(t) ==
    <<<<"ticket_id", IntVal(t)>>, <<"underlying", Str("QQQ")>>,
      <<"strategy", Str("y")>>, <<"status", Str("pending")>>>>

ReproposedDicts == {DictC(t) : t \in TicketIds}

Reasons == {NoValue, Str("bad risk")}

(***************************************************************************)
(* Outcomes of a call.                                                     *)
(***************************************************************************)
Returned(call, value) == [call |-> call, exc |-> "none", msg |-> <<>>, ret |-> value]
Raised(call, exc, msg) == [call |-> call, exc |-> exc, msg |-> msg, ret |-> NoValue]

(***************************************************************************)
(* init_db: the empty tables.                                              *)
(***************************************************************************)
init_db ==
    /\ tickets = <<>>
    /\ approvals = <<>>
    /\ rejections = <<>>

\* A caller that is inside no call.
NoCall ==
    [pc |-> "idle", call |-> "none", ticket_id |-> 0, reason |-> NoValue,
     row |-> NoValue, now |-> 0, result |-> NoValue]

\* The store after init_db, before any call.
InitStore ==
    /\ init_db
    /\ clock = 0
    /\ result = Returned("init_db", NoValue)
    /\ performed = <<>>
    /\ conn = [p \in Callers |-> NoCall]
    /\ writer = 0

\* app.py at import: _pending_tickets = {}, _execution_log = [], init_db().
InitApp ==
    /\ InitStore
    /\ pending_tickets = <<>>
    /\ execution_log = <<>>
    /\ response = NoValue
    /\ DEMO_MODE \in BOOLEAN
    /\ calc = NoValue

Init ==
    /\ InitStore
    /\ pending_tickets = <<>>
    /\ execution_log = <<>>
    /\ response = NoValue
    /\ DEMO_MODE = FALSE
    /\ calc = NoValue

(***************************************************************************)
(* insert_ticket.  The INSERT fails on the PRIMARY KEY of tickets when the *)
(* id is present; close() then rolls the transaction back.                 *)
(***************************************************************************)
TicketRow(ticket_dict, now) ==
    [ticket_id   |-> Get(ticket_dict, "ticket_id", NoValue).repr,
     ticket_hash |-> compute_ticket_hash(ticket_dict),
     symbol      |-> Get(ticket_dict, "underlying", Get(ticket_dict, "symbol", Str(""))),
     strategy    |-> Get(ticket_dict, "strategy", Str("")),
     payload     |-> json_dumps(ticket_dict, FALSE),
     status      |-> "pending",
     created_at  |-> isoformat(now)]

\* The same with INSERT OR REPLACE.
insert_ticket_OrReplace(ticket_dict) ==
    LET ticket_id == Get(ticket_dict, "ticket_id", NoValue).repr
        call == "insert_ticket"
    IN  \E now \in clock..MaxClock :
           /\ clock' = now
           /\ tickets' = [t \in DOMAIN tickets \cup {ticket_id} |->
                             IF t = ticket_id THEN TicketRow(ticket_dict, now)
                             ELSE tickets[t]]
           /\ result' = Returned(call, <<ticket_id, compute_ticket_hash(ticket_dict)>>)
           /\ UNCHANGED <<approvals, rejections, performed>>

insert_ticket(ticket_dict) ==
    LET ticket_id == Get(ticket_dict, "ticket_id", NoValue).repr
        call == "insert_ticket"
    IN  IF ticket_id \in DOMAIN tickets
        THEN /\ result' = Raised(call, "IntegrityError",
                                  <<"UNIQUE constraint failed: tickets.ticket_id">>)
             /\ UNCHANGED <<tickets, approvals, rejections, clock, performed>>
        ELSE \E now \in clock..MaxClock :
               /\ clock' = now
               /\ tickets' = [t \in DOMAIN tickets \cup {ticket_id} |->
                                 IF t = ticket_id THEN TicketRow(ticket_dict, now)
                                 ELSE tickets[t]]
               /\ result' = Returned(call, <<ticket_id, compute_ticket_hash(ticket_dict)>>)
               /\ UNCHANGED <<approvals, rejections, performed>>

\* get_ticket: the row, or None.
get_ticket(ticket_id) ==
    IF ticket_id \in DOMAIN tickets THEN tickets[ticket_id] ELSE NoValue

(***************************************************************************)
(* approve_ticket and reject_ticket, each call running alone.              *)
(***************************************************************************)
\* SELECT * FROM <audit table> WHERE ticket_id = ? AND ticket_hash = ?
Existing(table, ticket_id, ticket_hash) ==
    {i \in 1..Len(table) :
        table[i].ticket_id = ticket_id /\ table[i].ticket_hash = ticket_hash}

\* raise KeyError(f"Ticket {ticket_id} not found")
NotFound(ticket_id) == <<"Ticket", ticket_id, "not found">>

RaiseNotFound_ValueError(call, ticket_id) == Raised(call, "ValueError", NotFound(ticket_id))
RaiseNotFound(call, ticket_id) == Raised(call, "KeyError", NotFound(ticket_id))

\* raise ValueError(f"Ticket {ticket_id} is already {row['status']}")
Already_Approved(ticket_id, status) == <<"Ticket", ticket_id, "is already", "approved">>
Already(ticket_id, status) == <<"Ticket", ticket_id, "is already", status>>

RaiseConflict(call, ticket_id, status) == Raised(call, "ValueError", Already(ticket_id, status))

\* row["status"] != "pending" is what raises the conflict
IsPending_NotApproved(row) == row.status # "approved"
IsPending(row) == row.status = "pending"

approve_ticket(ticket_id) ==
    LET call == "approve_ticket"
        row == get_ticket(ticket_id)
    IN  IF row = NoValue
        THEN /\ result' = RaiseNotFound(call, ticket_id)
             /\ UNCHANGED <<tickets, approvals, rejections, clock, performed>>
        ELSE IF ~IsPending(row)
        THEN /\ result' = RaiseConflict(call, ticket_id, row.status)
             /\ UNCHANGED <<tickets, approvals, rejections, clock, performed>>
        ELSE \E now \in clock..MaxClock :
               LET existing == Existing(approvals, ticket_id, row.ticket_hash)
                   record == [ticket_id |-> ticket_id,
                              ticket_hash |-> row.ticket_hash,
                              approved_at |-> isoformat(now)]
               IN  /\ clock' = now
                   /\ IF existing # {}
                      THEN /\ result' = Returned(call, approvals[CHOOSE i \in existing : TRUE])
                           /\ UNCHANGED <<tickets, approvals, rejections, performed>>
                      ELSE /\ tickets' = [tickets EXCEPT ![ticket_id].status = "approved"]
                           /\ approvals' = Append(approvals, record)
                           /\ performed' = Append(performed, <<"approved", ticket_id>>)
                           /\ result' = Returned(call, record)
                           /\ UNCHANGED rejections

reject_ticket(ticket_id, reason) ==
    LET call == "reject_ticket"
        row == get_ticket(ticket_id)
    IN  IF row = NoValue
        THEN /\ result' = RaiseNotFound(call, ticket_id)
             /\ UNCHANGED <<tickets, approvals, rejections, clock, performed>>
        ELSE IF ~IsPending(row)
        THEN /\ result' = RaiseConflict(call, ticket_id, row.status)
             /\ UNCHANGED <<tickets, approvals, rejections, clock, performed>>
        ELSE \E now \in clock..MaxClock :
               LET existing == Existing(rejections, ticket_id, row.ticket_hash)
                   record == [ticket_id |-> ticket_id,
                              ticket_hash |-> row.ticket_hash,
                              reason |-> reason,
                              rejected_at |-> isoformat(now)]
               IN  /\ clock' = now
                   /\ IF existing # {}
                      THEN /\ result' = Returned(call, rejections[CHOOSE i \in existing : TRUE])
                           /\ UNCHANGED <<tickets, approvals, rejections, performed>>
                      ELSE /\ tickets' = [tickets EXCEPT ![ticket_id].status = "rejected"]
                           /\ rejections' = Append(rejections, record)
                           /\ performed' = Append(performed, <<"rejected", ticket_id>>)
                           /\ result' = Returned(call, record)
                           /\ UNCHANGED approvals

(***************************************************************************)
(* list_pending_tickets: SELECT ... WHERE status = 'pending' ORDER BY      *)
(* created_at DESC.  SQL leaves the order of rows with equal created_at    *)
(* open, so the call returns any ordering that is descending.              *)
(***************************************************************************)
Orderings(S) ==
    {f \in [1..Cardinality(S) -> S] : \A i, j \in DOMAIN f : f[i] = f[j] => i = j}

PendingIds == {t \in DOMAIN tickets : tickets[t].status = "pending"}

OrderByCreatedAtDesc_Asc(ids) ==
    \A i, j \in DOMAIN ids :
        i < j => ~StrLess(tickets[ids[j]].created_at, tickets[ids[i]].created_at)

OrderByCreatedAtDesc(ids) ==
    \A i, j \in DOMAIN ids :
        i < j => ~StrLess(tickets[ids[i]].created_at, tickets[ids[j]].created_at)

list_pending_tickets ==
    /\ \E ids \in Orderings(PendingIds) :
          /\ OrderByCreatedAtDesc(ids)
          /\ result' = Returned("list_pending_tickets",
                                 [i \in DOMAIN ids |-> tickets[ids[i]]])
    /\ UNCHANGED <<tickets, approvals, rejections, clock, performed>>

(***************************************************************************)
(* get_audit_log: both tables in rowid order, approvals first, then        *)
(* list.sort on the timestamp text, which is stable.                       *)
(***************************************************************************)
ApprovalEntry(r) ==
    [ticket_id |-> r.ticket_id, ticket_hash |-> r.ticket_hash,
     timestamp |-> r.approved_at, action |-> "approved", reason |-> NoValue]

RejectionEntry(r) ==
    [ticket_id |-> r.ticket_id, ticket_hash |-> r.ticket_hash,
     timestamp |-> r.rejected_at, action |-> "rejected", reason |-> r.reason]

SortByTimestamp_Unsorted(s) == s

RECURSIVE SortByTimestamp(_)
SortByTimestamp(s) ==
    IF s = <<>> THEN <<>>
    ELSE LET front == SortByTimestamp(SubSeq(s, 1, Len(s) - 1))
             x == s[Len(s)]
             k == Cardinality({i \in DOMAIN front :
                                  ~StrLess(x.timestamp, front[i].timestamp)})
         IN  SubSeq(front, 1, k) \o <<x>> \o SubSeq(front, k + 1, Len(front))

Combined ==
    [i \in DOMAIN approvals |-> ApprovalEntry(approvals[i])]
    \o [i \in DOMAIN rejections |-> RejectionEntry(rejections[i])]

get_audit_log ==
    /\ result' = Returned("get_audit_log", SortByTimestamp(Combined))
    /\ UNCHANGED <<tickets, approvals, rejections, clock, performed>>

\* Ticket ids are opaque to the store: a call that proposes a new id uses
\* the smallest id not yet in the table.
UsableIds == {t \in TicketIds : \A u \in 1..(t - 1) : u \in DOMAIN tickets}

(***************************************************************************)
(* The store used by one caller at a time: each call runs to its end       *)
(* before the next begins.                                                 *)
(***************************************************************************)
Next ==
    \/ \E d \in TicketDicts \cup ReproposedDicts :
          /\ Get(d, "ticket_id", NoValue).repr \in UsableIds
          /\ d \in ReproposedDicts => Get(d, "ticket_id", NoValue).repr \in DOMAIN tickets
          /\ insert_ticket(d)
          /\ UNCHANGED <<connVars, appVars, calc>>
    \/ \E t \in TicketIds :
          approve_ticket(t) /\ UNCHANGED <<connVars, appVars, calc>>
    \/ \E t \in TicketIds, r \in Reasons :
          reject_ticket(t, r) /\ UNCHANGED <<connVars, appVars, calc>>
    \/ list_pending_tickets /\ UNCHANGED <<connVars, appVars, calc>>
    \/ get_audit_log /\ UNCHANGED <<connVars, appVars, calc>>

Spec == Init /\ [][Next]_vars

(***************************************************************************)
(* The store used by several callers at once (threads of the Flask server, *)
(* or several processes on one database file).  Each caller has its own    *)
(* connection, and a call is a sequence of statements with other callers'  *)
(* statements in between.  A SELECT outside a transaction reads what is    *)
(* committed.  The UPDATE begins a write transaction: in WAL mode one      *)
(* connection writes at a time, another's UPDATE waits for the lock and    *)
(* raises OperationalError when the busy timeout expires.  What a          *)
(* transaction wrote is seen by others once it commits; close() without    *)
(* commit rolls it back.  Each caller makes one approve_ticket or          *)
(* reject_ticket call; the tickets are proposed before the first of them   *)
(* begins.                                                                 *)
(***************************************************************************)
AuditTable(call) == IF call = "approve_ticket" THEN approvals ELSE rejections

NewStatus(call) == IF call = "approve_ticket" THEN "approved" ELSE "rejected"

AuditRecord(f) ==
    IF f.call = "approve_ticket"
    THEN [ticket_id |-> f.ticket_id, ticket_hash |-> f.row.ticket_hash,
          approved_at |-> isoformat(f.now)]
    ELSE [ticket_id |-> f.ticket_id, ticket_hash |-> f.row.ticket_hash,
          reason |-> f.reason, rejected_at |-> isoformat(f.now)]

\* The call of caller p ends, by return or raise; finally: conn.close().
Finish(p, f, outcome) ==
    /\ conn' = [conn EXCEPT ![p] = [f EXCEPT !.pc = "done", !.result = outcome]]
    /\ result' = outcome

\* SELECT * FROM tickets WHERE ticket_id = ?, the two checks, and now.
select_ticket(p, call, ticket_id, reason) ==
    /\ conn[p].pc = "idle"
    /\ LET row == get_ticket(ticket_id)
           f == [NoCall EXCEPT !.call = call, !.ticket_id = ticket_id,
                               !.reason = reason, !.row = row]
       IN  IF row = NoValue
           THEN Finish(p, f, RaiseNotFound(call, ticket_id)) /\ UNCHANGED clock
           ELSE IF ~IsPending(row)
           THEN Finish(p, f, RaiseConflict(call, ticket_id, row.status)) /\ UNCHANGED clock
           ELSE \E now \in clock..MaxClock :
                  /\ clock' = now
                  /\ conn' = [conn EXCEPT ![p] =
                                [f EXCEPT !.pc = "select_existing", !.now = now]]
                  /\ UNCHANGED result
    /\ UNCHANGED <<tickets, approvals, rejections, performed, writer>>

\* SELECT * FROM approvals|rejections WHERE ticket_id = ? AND ticket_hash = ?
select_existing(p) ==
    /\ conn[p].pc = "select_existing"
    /\ LET f == conn[p]
           table == AuditTable(f.call)
           existing == Existing(table, f.ticket_id, f.row.ticket_hash)
       IN  IF existing # {}
           THEN Finish(p, f, Returned(f.call, table[CHOOSE i \in existing : TRUE]))
           ELSE /\ conn' = [conn EXCEPT ![p].pc = "update"]
                /\ UNCHANGED result
    /\ UNCHANGED <<tickets, approvals, rejections, clock, performed, writer>>

\* UPDATE tickets SET status = ... WHERE ticket_id = ?  takes the write lock.
update_status(p) ==
    /\ conn[p].pc = "update"
    /\ writer = 0
    /\ writer' = p
    /\ conn' = [conn EXCEPT ![p].pc = "insert"]
    /\ UNCHANGED storeVars

\* The UPDATE finds the write lock held until the busy timeout expires.
database_is_locked(p) ==
    /\ conn[p].pc = "update"
    /\ writer # 0
    /\ Finish(p, conn[p], Raised(conn[p].call, "OperationalError", <<"database is locked">>))
    /\ UNCHANGED <<tickets, approvals, rejections, clock, performed, writer>>

\* INSERT INTO approvals|rejections: UNIQUE(ticket_id, ticket_hash).
insert_audit(p) ==
    /\ conn[p].pc = "insert"
    /\ LET f == conn[p]
       IN  IF Existing(AuditTable(f.call), f.ticket_id, f.row.ticket_hash) # {}
           THEN /\ Finish(p, f, Raised(f.call, "IntegrityError", <<"UNIQUE constraint failed">>))
                /\ writer' = 0
           ELSE /\ conn' = [conn EXCEPT ![p].pc = "commit"]
                /\ UNCHANGED <<result, writer>>
    /\ UNCHANGED <<tickets, approvals, rejections, clock, performed>>

\* conn.commit() and the return of the record.
commit(p) ==
    /\ conn[p].pc = "commit"
    /\ LET f == conn[p]
       IN  /\ tickets' = [tickets EXCEPT ![f.ticket_id].status = NewStatus(f.call)]
           /\ IF f.call = "approve_ticket"
              THEN approvals' = Append(approvals, AuditRecord(f)) /\ UNCHANGED rejections
              ELSE rejections' = Append(rejections, AuditRecord(f)) /\ UNCHANGED approvals
           /\ performed' = Append(performed, <<NewStatus(f.call), f.ticket_id>>)
           /\ Finish(p, f, Returned(f.call, AuditRecord(f)))
    /\ writer' = 0
    /\ UNCHANGED clock

NextConc ==
    \/ \E d \in TicketDicts :
          /\ Get(d, "ticket_id", NoValue).repr \in UsableIds
          /\ writer = 0
          /\ \A p \in Callers : conn[p].pc = "idle"
          /\ insert_ticket(d)
          /\ UNCHANGED <<connVars, appVars, calc>>
    \/ \E p \in Callers, t \in TicketIds :
          select_ticket(p, "approve_ticket", t, NoValue) /\ UNCHANGED <<appVars, calc>>
    \/ \E p \in Callers, t \in TicketIds, r \in Reasons :
          select_ticket(p, "reject_ticket", t, r) /\ UNCHANGED <<appVars, calc>>
    \/ \E p \in Callers : select_existing(p) /\ UNCHANGED <<appVars, calc>>
    \/ \E p \in Callers : update_status(p) /\ UNCHANGED <<appVars, calc>>
    \/ \E p \in Callers : database_is_locked(p) /\ UNCHANGED <<appVars, calc>>
    \/ \E p \in Callers : insert_audit(p) /\ UNCHANGED <<appVars, calc>>
    \/ \E p \in Callers : commit(p) /\ UNCHANGED <<appVars, calc>>

SpecConc == Init /\ [][NextConc]_vars

(***************************************************************************)
(* The Flask handlers of the manual-confirmation workflow (app.py), one    *)
(* request at a time.  They keep two stores: the dict _pending_tickets in  *)
(* memory and the SQLite store above.                                      *)
(***************************************************************************)
\* RiskEngine limits, in tenths of a percent of equity (1.5, 5.0, 3.0).
MAX_TRADE_RISK_PCT == 15
MAX_WEEKLY_LOSS_PCT == 50
KILL_SWITCH_DRAWDOWN_PCT == 30

\* ticket_max_loss and max_loss of the demo ticket of the two propose routes.
DemoMaxLoss == 375

\* max_loss of _build_spread_params when no option chain is at hand.
FallbackMaxLoss == 500

\* The equity values a request carries: the default and a small account.
Equities == {100000, 1000}

\* risk_limits_pass of evaluate_ticket_risk: x / equity * 100 > pct, with
\* pct in tenths, is x * 1000 > pct * equity.
risk_limits_pass(ticket_max_loss, equity, weekly_realized_pnl, existing_weekly_max_losses) ==
    /\ ~(equity > 0 /\ ticket_max_loss * 1000 > MAX_TRADE_RISK_PCT * equity)
    /\ ~(equity > 0 /\ (existing_weekly_max_losses + ticket_max_loss) * 1000
                          > MAX_WEEKLY_LOSS_PCT * equity)
    /\ ~(equity > 0 /\ weekly_realized_pnl < 0
                    /\ (0 - weekly_realized_pnl) * 1000 > KILL_SWITCH_DRAWDOWN_PCT * equity)

\* ticket.model_dump(): the fields of TradeTicket the workflow reads, in
\* the order the model declares them.
model_dump(ticket_id, regime_passed, risk_passed, max_loss) ==
    <<<<"strategy", Str("SPY_PUT_CREDIT_SPREAD")>>,
      <<"underlying", Str("SPY")>>,
      <<"timestamp", Obj("d0")>>,
      <<"max_loss", IntVal(max_loss)>>,
      <<"regime_gate", Gate(regime_passed)>>,
      <<"risk_gate", Gate(risk_passed)>>,
      <<"ticket_id", IntVal(ticket_id)>>,
      <<"status", Str("pending")>>>>

\* The ticket dict kept in _pending_tickets.
MemoryTicket(ticket_dict, ticket_hash) ==
    [ticket_id |-> Get(ticket_dict, "ticket_id", NoValue).repr,
     strategy |-> Get(ticket_dict, "strategy", NoValue),
     max_loss |-> Get(ticket_dict, "max_loss", NoValue).repr,
     regime_gate |-> Get(ticket_dict, "regime_gate", NoValue),
     risk_gate |-> Get(ticket_dict, "risk_gate", NoValue),
     status |-> Get(ticket_dict, "status", NoValue).repr,
     ticket_hash |-> ticket_hash,
     executed_at |-> NoValue]

Response(route, code, body) == [route |-> route, code |-> code, body |-> body]

\* datetime.now().isoformat(): local time, no offset printed.
isoformat_naive(t) == SubSeq(isoformat(t), 1, Len(isoformat(t)) - 1)

\* Ids no ticket has, in memory or in the table; as in the store, a new
\* ticket takes the smallest of them.
FreshIds ==
    LET used == DOMAIN tickets \cup DOMAIN pending_tickets
    IN  {t \in TicketIds : t \notin used /\ \A u \in 1..(t - 1) : u \in used}

\* str(uuid.uuid4()): an id no ticket has.
uuid4 == CHOOSE t \in TicketIds : t \in FreshIds

\* generate_trade_ticket (IndexVolEngine): the gate of the analysis goes
\* into regime_gate, and risk_gate is RiskGate(passed=True, reasons=[]);
\* evaluate_ticket_risk is not called.  max_loss is the spread's.
generate_trade_ticket(ticket_id, regime_passed, max_loss) ==
    model_dump(ticket_id, regime_passed, TRUE, max_loss)

\* The demo ticket of the two propose routes.
demo_ticket(ticket_id, regime_passed, equity) ==
    model_dump(ticket_id, regime_passed,
               risk_limits_pass(DemoMaxLoss, equity, 0, 0), DemoMaxLoss)

\* POST /api/trade-tickets/spy.  regime_passed is what _evaluate_gate makes
\* of the market data; the risk gate is evaluate_ticket_risk's verdict in
\* demo mode and True from generate_trade_ticket otherwise.
propose_spy_tickets(equity, regime_passed) ==
    /\ FreshIds # {}
    /\ LET ticket_dict == IF DEMO_MODE
                          THEN demo_ticket(uuid4, regime_passed, equity)
                          ELSE generate_trade_ticket(uuid4, regime_passed, FallbackMaxLoss)
       IN  /\ insert_ticket(ticket_dict)
           /\ pending_tickets' =
                 [t \in DOMAIN pending_tickets \cup {uuid4} |->
                     IF t = uuid4
                     THEN MemoryTicket(ticket_dict, compute_ticket_hash(ticket_dict))
                     ELSE pending_tickets[t]]
           /\ response' = Response("trade-tickets/spy", 200, <<uuid4>>)
    /\ UNCHANGED <<execution_log, DEMO_MODE>>

\* POST /api/trade-ticket/index-vol.  The ticket goes into _pending_tickets
\* only.  In demo mode the handler reads validated.equity, a field that
\* IndexVolTicketRequest does not declare: the AttributeError is caught by
\* the handler's except clause and answered with 500.
generate_index_vol_ticket(regime_passed) ==
    /\ result' = NoValue
    /\ UNCHANGED <<tickets, approvals, rejections, clock, performed>>
    /\ UNCHANGED <<execution_log, DEMO_MODE>>
    /\ IF DEMO_MODE
       THEN /\ response' = Response("trade-ticket/index-vol", 500, <<"equity">>)
            /\ UNCHANGED pending_tickets
       ELSE /\ FreshIds # {}
            /\ LET ticket_dict == generate_trade_ticket(uuid4, regime_passed, FallbackMaxLoss)
               IN  /\ pending_tickets' =
                         [t \in DOMAIN pending_tickets \cup {uuid4} |->
                             IF t = uuid4 THEN MemoryTicket(ticket_dict, NoValue)
                             ELSE pending_tickets[t]]
                   /\ response' = Response("trade-ticket/index-vol", 200, <<uuid4>>)

\* GET /api/trade-ticket/pending without the status test.
get_pending_tickets_AnyStatus ==
    /\ response' = Response("trade-ticket/pending", 200,
          SelectSeq([i \in 1..Len(pending_tickets) |-> i],
                    LAMBDA t : /\ pending_tickets[t].regime_gate.passed
                               /\ pending_tickets[t].risk_gate.passed))
    /\ result' = NoValue
    /\ UNCHANGED <<tickets, approvals, rejections, clock, performed>>
    /\ UNCHANGED <<pending_tickets, execution_log, DEMO_MODE>>

\* GET /api/trade-ticket/pending
get_pending_tickets ==
    /\ response' = Response("trade-ticket/pending", 200,
          SelectSeq([i \in 1..Len(pending_tickets) |-> i],
                    LAMBDA t : /\ pending_tickets[t].status = "pending"
                               /\ pending_tickets[t].regime_gate.passed
                               /\ pending_tickets[t].risk_gate.passed))
    /\ result' = NoValue
    /\ UNCHANGED <<tickets, approvals, rejections, clock, performed>>
    /\ UNCHANGED <<pending_tickets, execution_log, DEMO_MODE>>

\* POST /api/execute
execute_trade(ticket_id, action) ==
    /\ result' = NoValue
    /\ UNCHANGED <<tickets, approvals, rejections, performed, DEMO_MODE>>
    /\ LET route == "execute"
       IN  IF action \notin {"approve", "reject"}
           THEN /\ response' = Response(route, 400, <<>>)
                /\ UNCHANGED <<clock, pending_tickets, execution_log>>
           ELSE IF ticket_id \notin DOMAIN pending_tickets
           THEN /\ response' = Response(route, 404, NotFound(ticket_id))
                /\ UNCHANGED <<clock, pending_tickets, execution_log>>
           ELSE IF pending_tickets[ticket_id].status # "pending"
           THEN /\ response' = Response(route, 409,
                                   Already(ticket_id, pending_tickets[ticket_id].status))
                /\ UNCHANGED <<clock, pending_tickets, execution_log>>
           ELSE \E now \in clock..MaxClock :
                  LET status == IF action = "approve" THEN "approved" ELSE "rejected"
                  IN  /\ clock' = now
                      /\ pending_tickets' =
                            [pending_tickets EXCEPT ![ticket_id].status = status,
                                                    ![ticket_id].executed_at = isoformat_naive(now)]
                      /\ execution_log' = Append(execution_log,
                            [ticket_id |-> ticket_id, action |-> action,
                             timestamp |-> isoformat_naive(now),
                             symbol |-> NoValue,
                             strategy |-> pending_tickets[ticket_id].strategy])
                      /\ response' = Response(route, 200, <<ticket_id, status>>)

\* Keep in-memory store in sync
SyncMemory(ticket_id, status) ==
    pending_tickets' =
        IF ticket_id \in DOMAIN pending_tickets
        THEN [pending_tickets EXCEPT ![ticket_id].status = status]
        ELSE pending_tickets

\* What the handler makes of the outcome of the store's call.
AfterStoreCall(route, ticket_id, status) ==
    IF result'.exc = "KeyError"
    THEN /\ response' = Response(route, 404, NotFound(ticket_id))
         /\ UNCHANGED pending_tickets
    ELSE IF result'.exc = "ValueError"
    THEN /\ response' = Response(route, 409, result'.msg)
         /\ UNCHANGED pending_tickets
    ELSE /\ SyncMemory(ticket_id, status)
         /\ response' = Response(route, 200, <<ticket_id, status>>)

\* POST /api/trade-approve
trade_approve(ticket_id) ==
    /\ approve_ticket(ticket_id)
    /\ AfterStoreCall("trade-approve", ticket_id, "approved")
    /\ UNCHANGED <<execution_log, DEMO_MODE>>

\* POST /api/trade-reject
trade_reject(ticket_id, reason) ==
    /\ reject_ticket(ticket_id, reason)
    /\ AfterStoreCall("trade-reject", ticket_id, "rejected")
    /\ UNCHANGED <<execution_log, DEMO_MODE>>

NextApp ==
    \/ \E equity \in Equities, regime_passed \in BOOLEAN :
          propose_spy_tickets(equity, regime_passed) /\ UNCHANGED <<connVars, calc>>
    \/ get_pending_tickets /\ UNCHANGED <<connVars, calc>>
    \/ \E t \in TicketIds, action \in {"approve", "reject", "hold"} :
          execute_trade(t, action) /\ UNCHANGED <<connVars, calc>>
    \/ \E t \in TicketIds : trade_approve(t) /\ UNCHANGED <<connVars, calc>>
    \/ \E t \in TicketIds, r \in Reasons : trade_reject(t, r) /\ UNCHANGED <<connVars, calc>>

SpecApp == InitApp /\ [][NextApp]_vars

(***************************************************************************)
(* The in-memory execution workflow alone: tickets proposed through        *)
(* /api/trade-ticket/index-vol, listed, and approved or rejected through   *)
(* /api/execute.  None of these handlers opens the SQLite store.           *)
(***************************************************************************)
NextExec ==
    \/ \E regime_passed \in BOOLEAN :
          generate_index_vol_ticket(regime_passed) /\ UNCHANGED <<connVars, calc>>
    \/ get_pending_tickets /\ UNCHANGED <<connVars, calc>>
    \/ \E t \in TicketIds, action \in {"approve", "reject", "hold"} :
          execute_trade(t, action) /\ UNCHANGED <<connVars, calc>>

SpecExec == InitApp /\ [][NextExec]_vars

(***************************************************************************)
(* The pure functions of the decision pipeline.  A call is one step: calc  *)
(* records the function, the object it was called on, its arguments and    *)
(* what it returned.  Floats are modelled by integers: the functions below *)
(* only compare and add them.                                              *)
(***************************************************************************)
Call(fn, self, args, out) == [fn |-> fn, self |-> self, args |-> args, out |-> out]

\* An optional flag: True, False or None; "is True" holds of the first.
Bool(b) == [kind |-> "bool", repr |-> b]
Flags == {NoValue, Bool(TRUE), Bool(FALSE)}

IsTrue(flag) == flag # NoValue /\ flag.repr

\* How far from a threshold the inputs are drawn, and the largest
\* threshold a constructor is given.
Delta == 1
MaxThreshold == 2

Near(x) == (x - Delta)..(x + Delta)

\* A constructor argument: None or a number.
Configured == {NoValue} \cup {IntVal(n) : n \in 0..MaxThreshold}

OrDefault(arg, default) == IF arg # NoValue THEN arg.repr ELSE default

(***************************************************************************)
(* circuit_breaker.py                                                      *)
(***************************************************************************)
DEFAULT_WEEKLY_DRAWDOWN_PCT == 5
DEFAULT_VIX_PERCENTILE_LIMIT == 80
DEFAULT_VIX_SPIKE_PCT == 20
DEFAULT_MACRO_BLACKOUT_DAYS == 1

\* CircuitBreaker.__init__
CircuitBreaker(weekly_drawdown_pct, vix_percentile_limit, vix_spike_pct, macro_blackout_days) ==
    [weekly_drawdown_pct |-> OrDefault(weekly_drawdown_pct, DEFAULT_WEEKLY_DRAWDOWN_PCT),
     vix_percentile_limit |-> OrDefault(vix_percentile_limit, DEFAULT_VIX_PERCENTILE_LIMIT),
     vix_spike_pct |-> OrDefault(vix_spike_pct, DEFAULT_VIX_SPIKE_PCT),
     macro_blackout_days |-> OrDefault(macro_blackout_days, DEFAULT_MACRO_BLACKOUT_DAYS)]

check_weekly_drawdown_Inclusive(self, weekly_pnl_pct) ==
    weekly_pnl_pct <= 0 - self.weekly_drawdown_pct
check_weekly_drawdown(self, weekly_pnl_pct) ==
    weekly_pnl_pct < 0 - self.weekly_drawdown_pct

check_vix_percentile(self, vix_percentile) ==
    vix_percentile >= self.vix_percentile_limit

check_vix_spike(self, vix_day_change_pct) ==
    vix_day_change_pct > self.vix_spike_pct

\* A date text that datetime.fromisoformat parses, as a day number.
IsoDate(day) == [kind |-> "isodate", repr |-> day]

\* An event of the calendar feed.
Event(date) == <<<<"date", date>>>>

\* check_macro_proximity: the first event with a date that parses and lies
\* within the blackout window blocks; an event whose date is missing, None
\* or not a date is skipped.
RECURSIVE check_macro_proximity(_, _, _)
check_macro_proximity(self, today, calendar_events) ==
    IF calendar_events = <<>>
    THEN FALSE
    ELSE LET event_date_str == Get(Head(calendar_events), "date", Str(""))
             days == today - event_date_str.repr
             distance == IF days < 0 THEN 0 - days ELSE days
         IN  IF event_date_str.kind # "isodate"
             THEN check_macro_proximity(self, today, Tail(calendar_events))
             ELSE IF distance <= self.macro_blackout_days
             THEN TRUE
             ELSE check_macro_proximity(self, today, Tail(calendar_events))

\* check_all: the reasons, in the order the checks run.
Reason(fires, text) == IF fires THEN <<text>> ELSE <<>>

check_all_ShortCircuit(self, today, weekly_pnl_pct, vix_percentile, vix_day_change_pct, calendar_events, regime_label, macro_proximity_elevated) ==
    LET reasons ==
          IF check_weekly_drawdown(self, weekly_pnl_pct)
          THEN <<"Weekly P&L drawdown">>
          ELSE Reason(check_vix_percentile(self, vix_percentile), "VIX percentile")
               \o Reason(check_vix_spike(self, vix_day_change_pct), "VIX day-over-day spike")
               \o Reason(check_macro_proximity(self, today, calendar_events),
                         "Inside macro-event blackout window")
               \o Reason(regime_label # NoValue /\ regime_label = Str("stressed"),
                         "Regime is stressed")
               \o Reason(IsTrue(macro_proximity_elevated), "Macro proximity elevated")
    IN  [trading_allowed |-> Len(reasons) = 0, reasons |-> reasons]
check_all(self, today, weekly_pnl_pct, vix_percentile, vix_day_change_pct, calendar_events, regime_label, macro_proximity_elevated) ==
    LET reasons ==
          Reason(check_weekly_drawdown(self, weekly_pnl_pct), "Weekly P&L drawdown")
          \o Reason(check_vix_percentile(self, vix_percentile), "VIX percentile")
          \o Reason(check_vix_spike(self, vix_day_change_pct), "VIX day-over-day spike")
          \o Reason(check_macro_proximity(self, today, calendar_events),
                    "Inside macro-event blackout window")
          \o Reason(regime_label # NoValue /\ regime_label = Str("stressed"),
                    "Regime is stressed")
          \o Reason(IsTrue(macro_proximity_elevated), "Macro proximity elevated")
    IN  [trading_allowed |-> Len(reasons) = 0, reasons |-> reasons]

\* Inputs of the calls.
Today == 0

EventDates(self) ==
    {IsoDate(Today + d) :
        d \in (0 - self.macro_blackout_days - Delta)..(self.macro_blackout_days + Delta)}
    \cup {Str(""), NoValue}

Calendars(self) ==
    {<<>>} \cup {<<Event(d)>> : d \in EventDates(self)}
           \cup {<<Event(d), Event(e)>> : d, e \in EventDates(self)}
           \cup {<<<<>>>>}

RegimeLabels == {NoValue, Str("compressed"), Str("stressed")}

Breakers == {CircuitBreaker(NoValue, NoValue, NoValue, NoValue),
             CircuitBreaker(IntVal(MaxThreshold), IntVal(MaxThreshold),
                            IntVal(MaxThreshold), IntVal(MaxThreshold))}

\* A call is made on fresh inputs and touches neither store nor app.
PureCall ==
    /\ calc = NoValue
    /\ UNCHANGED <<tickets, approvals, rejections, clock, result, performed,
                   conn, writer, pending_tickets, execution_log, response, DEMO_MODE>>

call_check_weekly_drawdown ==
    /\ PureCall
    /\ \E c \in Configured :
          LET self == CircuitBreaker(c, NoValue, NoValue, NoValue)
          IN  \E x \in Near(0 - self.weekly_drawdown_pct) :
                 calc' = Call("check_weekly_drawdown", self, <<x>>,
                              check_weekly_drawdown(self, x))

call_check_vix_percentile ==
    /\ PureCall
    /\ \E c \in Configured :
          LET self == CircuitBreaker(NoValue, c, NoValue, NoValue)
          IN  \E x \in Near(self.vix_percentile_limit) :
                 calc' = Call("check_vix_percentile", self, <<x>>,
                              check_vix_percentile(self, x))

call_check_vix_spike ==
    /\ PureCall
    /\ \E c \in Configured :
          LET self == CircuitBreaker(NoValue, NoValue, c, NoValue)
          IN  \E x \in Near(self.vix_spike_pct) :
                 calc' = Call("check_vix_spike", self, <<x>>,
                              check_vix_spike(self, x))

call_check_macro_proximity ==
    /\ PureCall
    /\ \E c \in Configured :
          LET self == CircuitBreaker(NoValue, NoValue, NoValue, c)
          IN  \E events \in Calendars(self) :
                 calc' = Call("check_macro_proximity", self, <<Today, events>>,
                              check_macro_proximity(self, Today, events))

call_check_all ==
    /\ PureCall
    /\ \E self \in Breakers :
       \E pnl \in Near(0 - self.weekly_drawdown_pct),
          pctl \in Near(self.vix_percentile_limit),
          chg \in Near(self.vix_spike_pct),
          events \in Calendars(self),
          regime_label \in RegimeLabels,
          elevated \in Flags :
            calc' = Call("check_all", self,
                         <<Today, pnl, pctl, chg, events, regime_label, elevated>>,
                         check_all(self, Today, pnl, pctl, chg, events, regime_label,
                                   elevated))

(***************************************************************************)
(* RiskEngine.evaluate_ticket_risk.  Amounts are whole dollars, the        *)
(* percentage limits are in tenths of a percent (MAX_TRADE_RISK_PCT and    *)
(* its companions above).  A Greek is a whole number of tenths of the last *)
(* decimal the report keeps: delta and gamma in 1e-5 (the report rounds    *)
(* them to 4 decimals), vega in 1e-3 (rounded to 2 decimals).              *)
(***************************************************************************)
RoundStep == 10

\* round(x, ndigits) on a number of tenths of the last digit kept: to the
\* nearest multiple of step, a tie going to the even one.
round(x, step) ==
    LET q == x \div step
        r == x % step
    IN  IF 2 * r < step THEN q * step
        ELSE IF 2 * r > step THEN (q + 1) * step
        ELSE IF q % 2 = 0 THEN q * step ELSE (q + 1) * step

\* One position of the portfolio: the keys calculate_portfolio_risk sums.
Position(delta, vega, gamma) ==
    [symbol |-> "SPY", delta |-> delta, vega |-> vega, gamma |-> gamma, notional |-> 500,
     earnings_date |-> NoValue]

\* sorted(dates), the dates being day numbers.
RECURSIVE sorted(_)
sorted(s) ==
    IF s = <<>> THEN <<>>
    ELSE LET front == sorted(SubSeq(s, 1, Len(s) - 1))
             x == s[Len(s)]
             k == Cardinality({i \in DOMAIN front : front[i] <= x})
         IN  SubSeq(front, 1, k) \o <<x>> \o SubSeq(front, k + 1, Len(front))

CLUSTER_WINDOW_DAYS == 3

\* gap <= self.CLUSTER_WINDOW_DAYS
WithinWindow_Strict(gap) == gap < CLUSTER_WINDOW_DAYS
WithinWindow(gap) == gap <= CLUSTER_WINDOW_DAYS

\* _assess_earnings_cluster_risk: the dates are ISO date strings, read with
\* datetime.fromisoformat; a date is the number of its day.
_assess_earnings_cluster_risk(earnings_dates) ==
    LET dates == sorted([i \in DOMAIN earnings_dates |-> earnings_dates[i].repr])
        close == SelectSeq([i \in 1..(Len(dates) - 1) |-> i + 1],
                           LAMBDA i : WithinWindow(dates[i] - dates[i - 1]))
        cluster_count == Len(close)
    IN  IF Len(earnings_dates) < 2
        THEN [level |-> "low", count |-> Len(earnings_dates), clusters |-> <<>>]
        ELSE [level |-> IF cluster_count >= 3 THEN "high"
                        ELSE IF cluster_count >= 1 THEN "medium" ELSE "low",
              count |-> Len(earnings_dates),
              clusters |-> [k \in DOMAIN close |->
                              [date_a |-> IsoDate(dates[close[k] - 1]),
                               date_b |-> IsoDate(dates[close[k]]),
                               gap_days |-> dates[close[k]] - dates[close[k] - 1]]]]

\* _empty_risk and calculate_portfolio_risk: the three totals
\* evaluate_ticket_risk reads from the report, and the earnings clustering.
_empty_risk ==
    [portfolio_delta |-> 0, portfolio_vega |-> 0, portfolio_gamma |-> 0,
     earnings_cluster_risk |-> "low",
     earnings_cluster_detail |-> [level |-> "low", count |-> 0, clusters |-> <<>>]]

RECURSIVE SumOf(_, _)
SumOf(positions, key) ==
    IF positions = <<>> THEN 0
    ELSE Head(positions)[key] + SumOf(Tail(positions), key)

calculate_portfolio_risk(positions) ==
    IF positions = <<>> THEN _empty_risk
    ELSE LET earnings_dates ==
                 SelectSeq([i \in DOMAIN positions |-> positions[i].earnings_date],
                           LAMBDA d : d # NoValue)
             earnings_cluster == _assess_earnings_cluster_risk(earnings_dates)
         IN  [portfolio_delta |-> round(SumOf(positions, "delta"), RoundStep),
              portfolio_vega  |-> round(SumOf(positions, "vega"), RoundStep),
              portfolio_gamma |-> round(SumOf(positions, "gamma"), RoundStep),
              earnings_cluster_risk |-> earnings_cluster.level,
              earnings_cluster_detail |-> earnings_cluster]

\* all_positions = list(existing_positions) + [ticket_position]: the new
\* list, and the caller's list as the statement leaves it.  The first
\* definition appends to the caller's list instead of copying it.
AllPositions_InPlace(existing_positions, ticket_position) ==
    [all_positions |-> existing_positions \o <<ticket_position>>,
     existing_positions |-> existing_positions \o <<ticket_position>>]

AllPositions(existing_positions, ticket_position) ==
    [all_positions |-> existing_positions \o <<ticket_position>>,
     existing_positions |-> existing_positions]

\* amount / equity * 100 > pct, with pct in tenths of a percent.
ExceedsPct_Inclusive(amount, equity, pct) == amount * 1000 >= pct * equity

ExceedsPct(amount, equity, pct) == amount * 1000 > pct * equity

Abs(x) == IF x < 0 THEN 0 - x ELSE x

\* if equity > 0: the guard of each of the three limits.
HasEquity_NotNegative(equity) == equity >= 0
HasEquity(equity) == equity > 0

\* The reasons are the messages without their formatted percentages.
TradeMaxLoss == "Trade max loss exceeds % of equity"
WeeklyMaxLoss == "Weekly max loss exceeds % of equity"
KillSwitch == "Weekly realized drawdown exceeds % kill switch"

\* The same with the three limits chained by elif.
evaluate_ticket_risk_FirstBreachOnly(ticket_max_loss, ticket_position, existing_positions, equity, weekly_realized_pnl, existing_weekly_max_losses) ==
    LET risk_before == calculate_portfolio_risk(existing_positions)
        risk_after == calculate_portfolio_risk(
                          AllPositions(existing_positions, ticket_position).all_positions)
        max_loss_trade == ticket_max_loss
        max_loss_week == existing_weekly_max_losses + max_loss_trade
        trade == HasEquity(equity) /\ ExceedsPct(max_loss_trade, equity, MAX_TRADE_RISK_PCT)
        week == HasEquity(equity) /\ ExceedsPct(max_loss_week, equity, MAX_WEEKLY_LOSS_PCT)
        kill == /\ HasEquity(equity) /\ weekly_realized_pnl < 0
                /\ ExceedsPct(Abs(weekly_realized_pnl), equity, KILL_SWITCH_DRAWDOWN_PCT)
    IN  [portfolio_delta_before |-> risk_before.portfolio_delta,
         portfolio_vega_before  |-> risk_before.portfolio_vega,
         portfolio_gamma_before |-> risk_before.portfolio_gamma,
         portfolio_delta_after  |-> risk_after.portfolio_delta,
         portfolio_vega_after   |-> risk_after.portfolio_vega,
         portfolio_gamma_after  |-> risk_after.portfolio_gamma,
         max_loss_trade         |-> max_loss_trade,
         max_loss_week          |-> max_loss_week,
         risk_limits_pass       |-> ~(trade \/ week \/ kill),
         reasons                |-> IF trade THEN <<TradeMaxLoss>>
                                    ELSE IF week THEN <<WeeklyMaxLoss>>
                                    ELSE Reason(kill, KillSwitch)]

evaluate_ticket_risk(ticket_max_loss, ticket_position, existing_positions, equity, weekly_realized_pnl, existing_weekly_max_losses) ==
    LET risk_before == calculate_portfolio_risk(existing_positions)
        risk_after == calculate_portfolio_risk(
                          AllPositions(existing_positions, ticket_position).all_positions)
        max_loss_trade == ticket_max_loss
        max_loss_week == existing_weekly_max_losses + max_loss_trade
        trade == HasEquity(equity) /\ ExceedsPct(max_loss_trade, equity, MAX_TRADE_RISK_PCT)
        week == HasEquity(equity) /\ ExceedsPct(max_loss_week, equity, MAX_WEEKLY_LOSS_PCT)
        kill == /\ HasEquity(equity) /\ weekly_realized_pnl < 0
                /\ ExceedsPct(Abs(weekly_realized_pnl), equity, KILL_SWITCH_DRAWDOWN_PCT)
    IN  [portfolio_delta_before |-> risk_before.portfolio_delta,
         portfolio_vega_before  |-> risk_before.portfolio_vega,
         portfolio_gamma_before |-> risk_before.portfolio_gamma,
         portfolio_delta_after  |-> risk_after.portfolio_delta,
         portfolio_vega_after   |-> risk_after.portfolio_vega,
         portfolio_gamma_after  |-> risk_after.portfolio_gamma,
         max_loss_trade         |-> max_loss_trade,
         max_loss_week          |-> max_loss_week,
         risk_limits_pass       |-> ~(trade \/ week \/ kill),
         reasons                |-> Reason(trade, TradeMaxLoss) \o Reason(week, WeeklyMaxLoss)
                                    \o Reason(kill, KillSwitch)]

\* Account sizes whose limits are whole dollars, no equity at all, and an
\* account in deficit.
RiskEquities == {0 - 200, 0, 200, 1000}

\* The dollar amount that is exactly pct tenths of a percent of equity.
PctOf(pct, equity) == (pct * equity) \div 1000

\* Amounts around the limit pct of an account; for an account without
\* equity, around the limit of the account of the same size and the demo
\* ticket's max loss as well.
Amounts(pct, equity) ==
    Near(PctOf(pct, Abs(equity))) \cup (IF equity > 0 THEN {} ELSE {DemoMaxLoss})

ExistingPositions == {<<>>, <<Position(14, 12, 0)>>}
TicketPositions == {Position(0 - 1, 0 - 1, 0), Position(1, 0, 1)}

call_evaluate_ticket_risk ==
    /\ PureCall
    /\ \E equity \in RiskEquities :
       \E ticket_max_loss \in Amounts(MAX_TRADE_RISK_PCT, equity),
          week \in Amounts(MAX_WEEKLY_LOSS_PCT, equity) \cup {0},
          loss \in Amounts(KILL_SWITCH_DRAWDOWN_PCT, equity)
                   \cup {0, 0 - (PctOf(KILL_SWITCH_DRAWDOWN_PCT, Abs(equity)) + 1)},
          ticket_position \in TicketPositions,
          existing_positions \in ExistingPositions :
            /\ week >= ticket_max_loss \/ week = 0
            /\ LET existing == IF week = 0 THEN 0 ELSE week - ticket_max_loss
                   weekly_realized_pnl == 0 - loss
               IN  calc' = Call("evaluate_ticket_risk", NoValue,
                                <<ticket_max_loss, ticket_position, existing_positions,
                                  equity, weekly_realized_pnl, existing>>,
                                evaluate_ticket_risk(ticket_max_loss, ticket_position,
                                                     existing_positions, equity,
                                                     weekly_realized_pnl, existing))

(***************************************************************************)
(* RegimeClassifier: the risk-appetite label and the trade gate.           *)
(***************************************************************************)

\* The same with the macro signal left out of the risk-off count.
_determine_risk_appetite_NoMacro(vol, corr, gamma, macro) ==
    LET risk_off_signals ==
            (IF vol.regime = "stressed" THEN 2 ELSE 0)
          + (IF corr.regime = "high" THEN 1 ELSE 0)
          + (IF gamma.gamma_direction = "negative" THEN 1 ELSE 0)
        risk_on_signals ==
            (IF vol.regime # "stressed" /\ vol.regime = "compressed" THEN 2 ELSE 0)
          + (IF corr.regime # "high" /\ corr.regime = "low" THEN 1 ELSE 0)
          + (IF gamma.gamma_direction # "negative" /\ gamma.gamma_direction = "positive"
             THEN 1 ELSE 0)
    IN  IF risk_off_signals >= 3 THEN "risk_off"
        ELSE IF risk_on_signals >= 3 THEN "risk_on"
        ELSE "neutral"

_determine_risk_appetite(vol, corr, gamma, macro) ==
    LET risk_off_signals ==
            (IF vol.regime = "stressed" THEN 2 ELSE 0)
          + (IF corr.regime = "high" THEN 1 ELSE 0)
          + (IF gamma.gamma_direction = "negative" THEN 1 ELSE 0)
          + (IF macro.elevated THEN 1 ELSE 0)
        risk_on_signals ==
            (IF vol.regime # "stressed" /\ vol.regime = "compressed" THEN 2 ELSE 0)
          + (IF corr.regime # "high" /\ corr.regime = "low" THEN 1 ELSE 0)
          + (IF gamma.gamma_direction # "negative" /\ gamma.gamma_direction = "positive"
             THEN 1 ELSE 0)
    IN  IF risk_off_signals >= 3 THEN "risk_off"
        ELSE IF risk_on_signals >= 3 THEN "risk_on"
        ELSE "neutral"

\* The labels the sub-classifiers produce.
VolRegimes == {"compressed", "expanding", "stressed"}
CorrRegimes == {"low", "medium", "high"}
GammaDirections == {"positive", "negative", "neutral"}

call__determine_risk_appetite ==
    /\ PureCall
    /\ \E regime \in VolRegimes, corr_regime \in CorrRegimes,
          gamma_direction \in GammaDirections, elevated \in BOOLEAN :
         LET vol == [regime |-> regime]
             corr == [regime |-> corr_regime]
             gamma == [gamma_direction |-> gamma_direction]
             macro == [elevated |-> elevated]
         IN  calc' = Call("_determine_risk_appetite", NoValue, <<vol, corr, gamma, macro>>,
                          Str(_determine_risk_appetite(vol, corr, gamma, macro)))

\* The gate thresholds; the ATR ratio threshold 1.5 is in tenths.
VIX_SPIKE_PCT == 10
VIX_HARD_CEILING == 35
ATR_RATIO_THRESHOLD == 15

\* timedelta(hours=48), and the clock reading of a call, in hours.
CutoffHours == 48
Now == 0

\* datetime.fromisoformat of a calendar entry's date string: an hour count
\* for a well-formed string, ValueError for anything else.
IsoDateTime(hour) == [kind |-> "isodatetime", repr |-> hour]

\* _check_macro_event_within_48h: the label of the first entry of the
\* calendar between now and now + 48 h, both ends included.
RECURSIVE _check_macro_event_within_48h(_, _)
_check_macro_event_within_48h(now, calendar) ==
    IF calendar = <<>> THEN NoValue
    ELSE LET event_date == Head(calendar)[1]
             label == Head(calendar)[2]
         IN  IF /\ event_date.kind = "isodatetime"
                /\ now <= event_date.repr
                /\ event_date.repr <= now + CutoffHours
             THEN Str(label)
             ELSE _check_macro_event_within_48h(now, Tail(calendar))

\* _check_realized_vol_rising on the SPY history: hist is None when the
\* download failed or has fewer than 21 rows, else its two averages.
RealizedVolRising == "Realized vol rising sharply: SPY 5d/20d ATR ratio"

_check_realized_vol_rising(hist) ==
    IF hist = NoValue THEN NoValue
    ELSE IF hist.atr_20 > 0 /\ hist.atr_5 * 10 > ATR_RATIO_THRESHOLD * hist.atr_20
         THEN Str(RealizedVolRising)
         ELSE NoValue

\* classification.get(...) with its defaults.
VolRegimeOf(classification) ==
    IF classification.vol_regime = NoValue THEN "" ELSE classification.vol_regime.repr

VolStressed == "Volatility regime is stressed"
MacroElevated == "Macro-event proximity is elevated"
VixSpike == "VIX spike: % day-over-day"
VixCeiling == "VIX above hard ceiling"
MacroEventWithin(label) == "Macro event within 48h: " \o label

\* The same with the two regime tests deciding alone when they fire.
should_trade_EarlyReturn(now, MACRO_EVENT_CALENDAR, hist, classification) ==
    LET vix_change == classification.vix_change_pct
        vix_current == classification.vix_current
        macro_event == _check_macro_event_within_48h(now, MACRO_EVENT_CALENDAR)
        atr_reason == _check_realized_vol_rising(hist)
        regime == Reason(VolRegimeOf(classification) = "stressed", VolStressed)
                  \o Reason(IsTrue(classification.elevated), MacroElevated)
        reasons ==
            IF regime # <<>> THEN regime
            ELSE Reason(vix_change # NoValue /\ vix_change.repr > VIX_SPIKE_PCT, VixSpike)
              \o Reason(vix_current # NoValue /\ vix_current.repr > VIX_HARD_CEILING, VixCeiling)
              \o (IF macro_event # NoValue /\ macro_event.repr # ""
                  THEN <<MacroEventWithin(macro_event.repr)>> ELSE <<>>)
              \o (IF atr_reason # NoValue THEN <<atr_reason.repr>> ELSE <<>>)
    IN  [pass_trade |-> Len(reasons) = 0, reasons |-> reasons]

should_trade(now, MACRO_EVENT_CALENDAR, hist, classification) ==
    LET vix_change == classification.vix_change_pct
        vix_current == classification.vix_current
        macro_event == _check_macro_event_within_48h(now, MACRO_EVENT_CALENDAR)
        atr_reason == _check_realized_vol_rising(hist)
        reasons ==
               Reason(VolRegimeOf(classification) = "stressed", VolStressed)
            \o Reason(IsTrue(classification.elevated), MacroElevated)
            \o Reason(vix_change # NoValue /\ vix_change.repr > VIX_SPIKE_PCT, VixSpike)
            \o Reason(vix_current # NoValue /\ vix_current.repr > VIX_HARD_CEILING, VixCeiling)
            \o (IF macro_event # NoValue /\ macro_event.repr # ""
                THEN <<MacroEventWithin(macro_event.repr)>> ELSE <<>>)
            \o (IF atr_reason # NoValue THEN <<atr_reason.repr>> ELSE <<>>)
    IN  [pass_trade |-> Len(reasons) = 0, reasons |-> reasons]

\* Calendars: empty, one event around either end of the window, and an
\* unparsable date before an event inside the window.
EventHours == Near(Now) \cup Near(Now + CutoffHours)
EventCalendars ==
    {<<>>, <<<<Str("n/a"), "CPI">>, <<IsoDateTime(Now + 1), "NFP">>>>}
    \cup {<<<<IsoDateTime(hour), "FOMC">>>> : hour \in EventHours}

\* Histories: none, and averages below, at and above the ratio, or flat.
Histories ==
    {NoValue} \cup {[atr_5 |-> a, atr_20 |-> 2] : a \in Near(3)} \cup {[atr_5 |-> 0, atr_20 |-> 0]}

Classifications ==
    [vol_regime : {NoValue, Str("expanding"), Str("stressed")},
     elevated : Flags,
     vix_change_pct : {NoValue} \cup {IntVal(n) : n \in Near(VIX_SPIKE_PCT)},
     vix_current : {NoValue} \cup {IntVal(n) : n \in Near(VIX_HARD_CEILING)}]

call_should_trade ==
    /\ PureCall
    /\ \E calendar \in EventCalendars, hist \in Histories,
          classification \in Classifications :
            calc' = Call("should_trade", NoValue, <<Now, calendar, hist, classification>>,
                         should_trade(Now, calendar, hist, classification))

(***************************************************************************)
(* DerivativesCalculator.calculate_greeks for an expired option (T <= 0).  *)
(* The Black-Scholes branch for T > 0 works on logarithms, exponentials    *)
(* and the normal distribution of floats and is not modelled: the operator *)
(* is defined for T <= 0 only.                                             *)
(***************************************************************************)

Max(a, b) == IF a >= b THEN a ELSE b

calculate_greeks(S, K, T, sigma, r, option_type, q) ==
    CASE T <= 0 ->
        [price |-> IF option_type = "call" THEN Max(S - K, 0) ELSE Max(K - S, 0),
         delta |-> IF option_type = "call" /\ S > K THEN 1 ELSE 0,
         gamma |-> 0,
         vega_per_1pct |-> 0,
         theta |-> 0,
         rho_per_1pct |-> 0]

\* A strike with spots below, at and above it; expiry now or already past.
Strike == 100
ExpiredT == {0 - 1, 0}
OptionTypes == {"call", "put"}

call_calculate_greeks ==
    /\ PureCall
    /\ \E S \in Near(Strike), T \in ExpiredT, option_type \in OptionTypes :
         LET sigma == 25
             r == 5
             q == 0
         IN  calc' = Call("calculate_greeks", NoValue,
                          <<S, Strike, T, sigma, r, option_type, q>>,
                          calculate_greeks(S, Strike, T, sigma, r, option_type, q))

(***************************************************************************)
(* trade_ticket.py: the pydantic models, build_trade_ticket and            *)
(* evaluate_ticket.  A dict argument is Dict(items) with items a sequence  *)
(* of key/value pairs; None is NoValue; floats are whole numbers.          *)
(***************************************************************************)

Dict(items) == [kind |-> "dict", items |-> items]

\* The sub-models, with the defaults their classes declare.
TicketLeg(type, side, strike, qty, delta, vega, gamma, price) ==
    [kind |-> "TicketLeg", type |-> type, side |-> side, strike |-> strike, qty |-> qty,
     delta |-> delta, vega |-> vega, gamma |-> gamma, price |-> price]

EdgeMetrics(items) ==
    [kind |-> "EdgeMetrics",
     iv_pct |-> Get(items, "iv_pct", NoValue),
     implied_move |-> Get(items, "implied_move", NoValue),
     realized_proxy |-> Get(items, "realized_proxy", NoValue),
     iv_richness |-> Get(items, "iv_richness", NoValue),
     skew_metric |-> Get(items, "skew_metric", NoValue),
     term_structure |-> Get(items, "term_structure", NoValue)]

RegimeGate(items) ==
    [kind |-> "RegimeGate",
     passed |-> Get(items, "passed", TRUE),
     reasons |-> Get(items, "reasons", <<>>)]

PortfolioAfter(items) ==
    [kind |-> "PortfolioAfter",
     delta |-> Get(items, "delta", 0),
     vega |-> Get(items, "vega", 0),
     gamma |-> Get(items, "gamma", 0),
     max_loss_trade |-> Get(items, "max_loss_trade", 0),
     max_loss_week |-> Get(items, "max_loss_week", 0)]

RiskGate(items) ==
    [kind |-> "RiskGate",
     passed |-> Get(items, "passed", TRUE),
     reasons |-> Get(items, "reasons", <<>>),
     portfolio_after |-> Get(items, "portfolio_after", PortfolioAfter(<<>>))]

Exits(items) ==
    [kind |-> "Exits",
     take_profit_pct |-> Get(items, "take_profit_pct", 50),
     stop_loss_multiple |-> Get(items, "stop_loss_multiple", 2),
     time_stop_days |-> Get(items, "time_stop_days", 21)]

\* arg if isinstance(arg, Model) else Model(**(arg or {}))
ItemsOf(arg) == IF arg = NoValue THEN <<>> ELSE arg.items

\* The TicketLeg of a leg dict, read under the canonical names only.
LegFromDict_CanonicalOnly(leg) ==
    TicketLeg(Get(leg.items, "type", "put"),
              Get(leg.items, "side", "sell"),
              Get(leg.items, "strike", 0),
              Get(leg.items, "qty", 1),
              Get(leg.items, "delta", NoValue),
              Get(leg.items, "vega", NoValue),
              Get(leg.items, "gamma", NoValue),
              Get(leg.items, "price", NoValue))

\* The TicketLeg of a leg dict: canonical names first, then the legacy
\* ones, then the defaults.
LegFromDict(leg) ==
    TicketLeg(Get(leg.items, "type", Get(leg.items, "option_type", "put")),
              Get(leg.items, "side", Get(leg.items, "action", "sell")),
              Get(leg.items, "strike", 0),
              Get(leg.items, "qty", Get(leg.items, "quantity", 1)),
              Get(leg.items, "delta", NoValue),
              Get(leg.items, "vega", NoValue),
              Get(leg.items, "gamma", NoValue),
              Get(leg.items, "price", NoValue))

\* The loop over legs: instances are kept, dicts converted, the rest skipped.
RECURSIVE TicketLegs(_)
TicketLegs(legs) ==
    IF legs = <<>> THEN <<>>
    ELSE LET leg == Head(legs)
         IN  (IF leg.kind = "TicketLeg" THEN <<leg>>
              ELSE IF leg.kind = "dict" THEN <<LegFromDict(leg)>>
              ELSE <<>>) \o TicketLegs(Tail(legs))

build_trade_ticket(now, underlying, strategy, legs, mid_credit, max_loss, width, limit_credit, expiry, dte, pop_estimate, edge_metrics, regime_gate, risk_gate, confidence_score, exits, ticket_id) ==
    [strategy |-> strategy,
     underlying |-> underlying,
     timestamp |-> now,
     data_timestamp |-> now,
     expiry |-> expiry,
     dte |-> dte,
     legs |-> TicketLegs(IF legs = NoValue THEN <<>> ELSE legs.items),
     mid_credit |-> mid_credit,
     limit_credit |-> IF limit_credit # NoValue THEN limit_credit.repr ELSE mid_credit,
     width |-> width,
     max_loss |-> max_loss,
     pop_estimate |-> pop_estimate,
     edge_metrics |-> IF edge_metrics.kind = "EdgeMetrics" THEN edge_metrics
                      ELSE EdgeMetrics(ItemsOf(edge_metrics)),
     regime_gate |-> IF regime_gate.kind = "RegimeGate" THEN regime_gate
                     ELSE RegimeGate(ItemsOf(regime_gate)),
     risk_gate |-> IF risk_gate.kind = "RiskGate" THEN risk_gate
                   ELSE RiskGate(ItemsOf(risk_gate)),
     confidence_score |-> confidence_score,
     exits |-> IF exits.kind = "Exits" THEN exits ELSE Exits(ItemsOf(exits)),
     ticket_id |-> ticket_id,
     status |-> "pending"]

\* A leg under the canonical and under the legacy naming.
CanonicalLeg(type, side, strike, qty) ==
    Dict(<<<<"type", type>>, <<"side", side>>, <<"strike", strike>>, <<"qty", qty>>,
           <<"delta", IntVal(0 - 13)>>, <<"price", IntVal(4)>>>>)

LegacyLeg(type, side, strike, qty) ==
    Dict(<<<<"option_type", type>>, <<"action", side>>, <<"strike", strike>>,
           <<"quantity", qty>>, <<"delta", IntVal(0 - 13)>>, <<"price", IntVal(4)>>>>)

\* Lists of legs: none at all, empty, either naming, a TicketLeg instance,
\* a leg with no keys, and an entry that is neither a dict nor a TicketLeg.
LegLists ==
    {NoValue, Dict(<<>>), Dict(<<Dict(<<>>)>>), Dict(<<Str("leg")>>),
     Dict(<<TicketLeg("put", "buy", 455, 1, NoValue, NoValue, NoValue, NoValue)>>)}
    \cup {Dict(<<CanonicalLeg(type, "buy", 460, 2)>>) : type \in OptionTypes}
    \cup {Dict(<<LegacyLeg(type, "buy", 460, 2)>>) : type \in OptionTypes}
    \cup {Dict(<<LegacyLeg("call", "buy", 500, 2), CanonicalLeg("put", "sell", 460, 1)>>)}

RegimeGateArgs ==
    {NoValue, Dict(<<>>),
     Dict(<<<<"passed", FALSE>>, <<"reasons", <<VolStressed>>>>>>),
     RegimeGate(<<<<"passed", FALSE>>, <<"reasons", <<MacroElevated>>>>>>)}

RiskGateArgs ==
    {NoValue, Dict(<<<<"passed", FALSE>>, <<"reasons", <<TradeMaxLoss>>>>>>)}

ExitsArgs ==
    {NoValue, Dict(<<<<"take_profit_pct", 40>>>>),
     Exits(<<<<"stop_loss_multiple", 3>>, <<"time_stop_days", 7>>>>)}

LimitCredits == {NoValue, IntVal(0), IntVal(2)}
TicketIdArgs == {NoValue, Str("t1")}

call_build_trade_ticket ==
    /\ PureCall
    /\ \E legs \in LegLists, limit_credit \in LimitCredits,
          regime_gate \in RegimeGateArgs, risk_gate \in RiskGateArgs,
          exits \in ExitsArgs, ticket_id \in TicketIdArgs :
         LET mid_credit == 3
             max_loss == 200
             width == 5
         IN  calc' = Call("build_trade_ticket", NoValue,
                          <<Str("SPY"), Str("SPY_IRON_CONDOR"), legs, mid_credit, max_loss,
                            width, limit_credit, NoValue, NoValue, NoValue, NoValue,
                            regime_gate, risk_gate, 0, exits, ticket_id>>,
                          build_trade_ticket(Now, Str("SPY"), Str("SPY_IRON_CONDOR"), legs,
                                             mid_credit, max_loss, width, limit_credit,
                                             NoValue, NoValue, NoValue, NoValue,
                                             regime_gate, risk_gate, 0, exits, ticket_id))

\* The sums evaluate_ticket takes over the legs of a ticket.
LegSign_SellOnly(leg) == IF leg.side = "sell" THEN 0 - 1 ELSE 1
LegSign(leg) == IF leg.side = "buy" THEN 1 ELSE 0 - 1
OrZero(value) == IF value = NoValue THEN 0 ELSE value.repr

RECURSIVE CombinedGreek(_, _)
CombinedGreek(legs, greek) ==
    IF legs = <<>> THEN 0
    ELSE LegSign(Head(legs)) * Head(legs).qty * OrZero(Head(legs)[greek])
         + CombinedGreek(Tail(legs), greek)

RECURSIVE CombinedNotional(_)
CombinedNotional(legs) ==
    IF legs = <<>> THEN 0
    ELSE Abs(Head(legs).qty * OrZero(Head(legs).price) * 100)
         + CombinedNotional(Tail(legs))

\* evaluate_ticket sets ticket.risk_gate and returns the ticket; the value
\* here is the ticket as returned together with the net position the call
\* passes to evaluate_ticket_risk and the caller's existing_positions list
\* as the call leaves it.
evaluate_ticket(ticket, existing_positions, equity, weekly_realized_pnl, existing_weekly_max_losses) ==
    LET new_position ==
            [symbol |-> ticket.underlying,
             delta |-> CombinedGreek(ticket.legs, "delta"),
             vega |-> CombinedGreek(ticket.legs, "vega"),
             gamma |-> CombinedGreek(ticket.legs, "gamma"),
             notional |-> CombinedNotional(ticket.legs),
             earnings_date |-> NoValue]
        risk == evaluate_ticket_risk(ticket.max_loss, new_position, existing_positions,
                                       equity, weekly_realized_pnl,
                                       existing_weekly_max_losses)
        portfolio_after ==
            [kind |-> "PortfolioAfter",
             delta |-> risk.portfolio_delta_after,
             vega |-> risk.portfolio_vega_after,
             gamma |-> risk.portfolio_gamma_after,
             max_loss_trade |-> risk.max_loss_trade,
             max_loss_week |-> risk.max_loss_week]
    IN  [ticket |-> [ticket EXCEPT !.risk_gate =
                        [kind |-> "RiskGate",
                         passed |-> risk.risk_limits_pass,
                         reasons |-> risk.reasons,
                         portfolio_after |-> portfolio_after]],
         new_position |-> new_position,
         existing_positions |-> AllPositions(existing_positions, new_position).existing_positions]

\* Tickets as build_trade_ticket returns them, with a max loss around the
\* per-trade cap of the equity they are evaluated against.
BuiltTickets(equity) ==
    {build_trade_ticket(Now, Str("SPY"), Str("SPY_PUT_CREDIT_SPREAD"), legs, 3, max_loss, 5,
                        NoValue, NoValue, NoValue, NoValue, NoValue, regime_gate, risk_gate,
                        0, NoValue, ticket_id) :
        legs \in {Dict(<<>>),
                  Dict(<<LegacyLeg("call", "buy", 500, 2), CanonicalLeg("put", "sell", 460, 1)>>),
                  Dict(<<TicketLeg("put", "hold", 455, 3, IntVal(4), IntVal(0 - 6),
                                   IntVal(2), NoValue)>>)},
        max_loss \in Near(PctOf(MAX_TRADE_RISK_PCT, equity)),
        regime_gate \in {NoValue, Dict(<<<<"passed", FALSE>>, <<"reasons", <<VolStressed>>>>>>)},
        risk_gate \in RiskGateArgs,
        ticket_id \in TicketIdArgs}

call_evaluate_ticket ==
    /\ PureCall
    /\ \E equity \in {e \in RiskEquities : e > 0} :
       \E ticket \in BuiltTickets(equity), existing_positions \in ExistingPositions :
            calc' = Call("evaluate_ticket", NoValue,
                         <<ticket, existing_positions, equity, 0, 0>>,
                         evaluate_ticket(ticket, existing_positions, equity, 0, 0))

\* Lists of earnings dates, in any order, with gaps on both sides of the
\* window between neighbouring days.
MaxDates == 4
EarningsDays == {0, 3, 4, 7, 8, 12}
DateLists == UNION {[1..n -> {IsoDate(d) : d \in EarningsDays}] : n \in 0..MaxDates}

call__assess_earnings_cluster_risk ==
    /\ PureCall
    /\ \E earnings_dates \in DateLists :
          calc' = Call("_assess_earnings_cluster_risk", NoValue, <<earnings_dates>>,
                       _assess_earnings_cluster_risk(earnings_dates))

\* Portfolios of up to two positions, with and without an earnings date.
EarningsPositions ==
    {[Position(14, 12, 0) EXCEPT !.earnings_date = d] : d \in {NoValue, IsoDate(0), IsoDate(3)}}
PositionLists == UNION {[1..n -> EarningsPositions] : n \in 0..2}

call_calculate_portfolio_risk ==
    /\ PureCall
    /\ \E positions \in PositionLists :
          calc' = Call("calculate_portfolio_risk", NoValue, <<positions>>,
                       calculate_portfolio_risk(positions))

NextPure ==
    \/ call_check_weekly_drawdown
    \/ call_check_vix_percentile
    \/ call_check_vix_spike
    \/ call_check_macro_proximity
    \/ call_check_all
    \/ call_evaluate_ticket_risk
    \/ call__determine_risk_appetite
    \/ call_should_trade
    \/ call_calculate_greeks
    \/ call_build_trade_ticket
    \/ call_evaluate_ticket
    \/ call__assess_earnings_cluster_risk
    \/ call_calculate_portfolio_risk

SpecPure == Init /\ [][NextPure]_vars

(***************************************************************************)
(* Reading aids for the properties below.                                  *)
(***************************************************************************)
\* The clock reading a timestamp text was printed from.
TimeOf(text) == CHOOSE n \in Times : isoformat(n) = text

Tables == <<tickets, approvals, rejections>>

RowsFor(table, t) == {i \in DOMAIN table : table[i].ticket_id = t}

\* Every ordering of the items of a dict.
KeyOrders(d) == {[i \in DOMAIN d |-> d[f[i]]] : f \in Orderings(DOMAIN d)}

IdOf(ticket_dict) == Get(ticket_dict, "ticket_id", NoValue).repr

(***************************************************************************)
(* C1 as claimed: of two approve_ticket calls that overlap on one pending  *)
(* ticket (each read it as pending), exactly one returns an approval       *)
(* record and the other raises; the ticket ends approved with one          *)
(* approvals row.                                                          *)
(***************************************************************************)
ReadPending(c, call, t) ==
    /\ conn[c].pc = "done"
    /\ conn[c].call = call
    /\ conn[c].ticket_id = t
    /\ conn[c].row # NoValue
    /\ conn[c].row.status = "pending"

C1_Original ==
    \A p, q \in Callers, t \in TicketIds :
        (/\ p # q
         /\ ReadPending(p, "approve_ticket", t)
         /\ ReadPending(q, "approve_ticket", t)
         /\ \A c \in Callers \ {p, q} : conn[c].pc = "idle")
        => /\ Cardinality({c \in {p, q} : conn[c].result.exc = "none"}) = 1
           /\ Cardinality({c \in {p, q} : conn[c].result.exc # "none"}) = 1
           /\ tickets[t].status = "approved"
           /\ Cardinality(RowsFor(approvals, t)) = 1

(***************************************************************************)
(* C2 as claimed: of an approve_ticket and a reject_ticket call that       *)
(* overlap on one pending ticket, at most one succeeds, and the ticket     *)
(* ends with exactly one audit row, the one that matches its status.       *)
(***************************************************************************)
C2_Original ==
    \A p, q \in Callers, t \in TicketIds :
        (/\ ReadPending(p, "approve_ticket", t)
         /\ ReadPending(q, "reject_ticket", t)
         /\ \A c \in Callers \ {p, q} : conn[c].pc = "idle")
        => /\ Cardinality({c \in {p, q} : conn[c].result.exc = "none"}) <= 1
           /\ Cardinality(RowsFor(approvals, t)) + Cardinality(RowsFor(rejections, t)) = 1
           /\ RowsFor(approvals, t) # {} <=> tickets[t].status = "approved"
           /\ RowsFor(rejections, t) # {} <=> tickets[t].status = "rejected"


(***************************************************************************)
(* C3: with calls running one at a time, a ticket row is never removed and *)
(* its status changes only from pending to approved or from pending to     *)
(* rejected: an approved or rejected ticket keeps its status whatever call *)
(* follows, with whatever arguments.                                       *)
(***************************************************************************)
C3_TerminalStatusIsFinal ==
    [][\A t \in DOMAIN tickets :
          /\ t \in DOMAIN tickets'
          /\ tickets'[t].status # tickets[t].status
               => /\ tickets[t].status = "pending"
                  /\ tickets'[t].status \in {"approved", "rejected"}]_vars

\* A reject_ticket call has just been refused on an approved ticket.
C3_Witness ==
    \E t \in DOMAIN tickets :
        /\ tickets[t].status = "approved"
        /\ result = Raised("reject_ticket", "ValueError", <<"Ticket", t, "is already", "approved">>)

(***************************************************************************)
(* C4: approve_ticket or reject_ticket on a ticket that is approved or     *)
(* rejected raises ValueError with a message naming that status, and       *)
(* leaves the three tables as they were.                                   *)
(***************************************************************************)
C4_ConflictNamesStatus ==
    [][\A t \in TicketIds, r \in Reasons :
          /\ approve_ticket(t) \/ reject_ticket(t, r)
          /\ t \in DOMAIN tickets
          /\ tickets[t].status # "pending"
          => /\ result'.exc = "ValueError"
             /\ result'.msg = <<"Ticket", t, "is already", tickets[t].status>>
             /\ result'.ret = NoValue
             /\ Tables' = Tables]_vars

\* approve_ticket has just been refused on a rejected ticket, whose one
\* audit row is its rejection.
C4_Witness ==
    \E t \in DOMAIN tickets :
        /\ tickets[t].status = "rejected"
        /\ result = Raised("approve_ticket", "ValueError", <<"Ticket", t, "is already", "rejected">>)
        /\ Cardinality(RowsFor(rejections, t)) = 1
        /\ RowsFor(approvals, t) = {}

(***************************************************************************)
(* C5: approve_ticket or reject_ticket with an id that was never proposed  *)
(* raises KeyError, not ValueError, and leaves the three tables as they    *)
(* were.                                                                   *)
(***************************************************************************)
C5_NotFoundIsKeyError ==
    [][\A t \in TicketIds, r \in Reasons :
          /\ approve_ticket(t) \/ reject_ticket(t, r)
          /\ t \notin DOMAIN tickets
          => /\ result'.exc = "KeyError"
             /\ result'.exc # "ValueError"
             /\ result'.msg = <<"Ticket", t, "not found">>
             /\ Tables' = Tables]_vars

\* reject_ticket has just been refused for an id absent from a table that
\* holds another ticket.
C5_Witness ==
    \E t \in TicketIds :
        /\ t \notin DOMAIN tickets
        /\ DOMAIN tickets # {}
        /\ result = Raised("reject_ticket", "KeyError", <<"Ticket", t, "not found">>)

(***************************************************************************)
(* C6: after any sequence of calls run one at a time, a ticket has one     *)
(* approvals row iff it is approved, one rejections row iff it is          *)
(* rejected, none while pending, never two audit rows; every audit row     *)
(* belongs to a ticket and carries the hash stored for it when it was      *)
(* proposed (the hash of its payload), so (ticket id, hash) pairs are      *)
(* unique in each audit table.                                             *)
(***************************************************************************)
C6_AuditRowsMatchStatus ==
    /\ \A t \in DOMAIN tickets :
          /\ Cardinality(RowsFor(approvals, t)) =
                (IF tickets[t].status = "approved" THEN 1 ELSE 0)
          /\ Cardinality(RowsFor(rejections, t)) =
                (IF tickets[t].status = "rejected" THEN 1 ELSE 0)
          /\ tickets[t].ticket_hash = sha256(SortByKey(tickets[t].payload))
    /\ \A table \in {approvals, rejections} :
          /\ \A i \in DOMAIN table :
                /\ table[i].ticket_id \in DOMAIN tickets
                /\ table[i].ticket_hash = tickets[table[i].ticket_id].ticket_hash
          /\ \A i, j \in DOMAIN table :
                (table[i].ticket_id = table[j].ticket_id
                    /\ table[i].ticket_hash = table[j].ticket_hash) => i = j

\* One ticket approved, another rejected, and a further call refused.
C6_Witness ==
    /\ \E t \in DOMAIN tickets : tickets[t].status = "approved"
    /\ \E t \in DOMAIN tickets : tickets[t].status = "rejected"
    /\ result.exc = "ValueError"

(***************************************************************************)
(* C7 as claimed: a ticket is approved, in the store or in memory, only if *)
(* its regime gate and its risk gate both passed.                          *)
(***************************************************************************)
\* json.loads(row["payload"])[key]["passed"]
PayloadGatePassed(row, key) == Get(row.payload, key, <<"{passed:", TRUE, "}">>)[2]

C7_Original ==
    /\ \A t \in DOMAIN tickets :
          tickets[t].status = "approved"
            => /\ PayloadGatePassed(tickets[t], "regime_gate")
               /\ PayloadGatePassed(tickets[t], "risk_gate")
    /\ \A t \in DOMAIN pending_tickets :
          pending_tickets[t].status = "approved"
            => /\ pending_tickets[t].regime_gate.passed
               /\ pending_tickets[t].risk_gate.passed

(***************************************************************************)
(* C8: insert_ticket with an id not in the store adds one row for it, with *)
(* status pending and the hash compute_ticket_hash gives the dict, returns *)
(* that (id, hash), and leaves the other rows and both audit tables as     *)
(* they were; compute_ticket_hash gives the same hash to the dict's items  *)
(* in every key order.                                                     *)
(***************************************************************************)
C8_InsertAddsOnePendingRow ==
    [][\A d \in TicketDicts :
          /\ insert_ticket(d)
          /\ IdOf(d) \notin DOMAIN tickets
          => /\ DOMAIN tickets' = DOMAIN tickets \cup {IdOf(d)}
             /\ tickets'[IdOf(d)].status = "pending"
             /\ tickets'[IdOf(d)].ticket_id = IdOf(d)
             /\ tickets'[IdOf(d)].ticket_hash = compute_ticket_hash(d)
             /\ result' = Returned("insert_ticket", <<IdOf(d), compute_ticket_hash(d)>>)
             /\ \A t \in DOMAIN tickets : tickets'[t] = tickets[t]
             /\ approvals' = approvals
             /\ rejections' = rejections
             /\ \A e \in KeyOrders(d) :
                   compute_ticket_hash(e) = tickets'[IdOf(d)].ticket_hash]_vars

\* Ticket 2 has just been inserted beside an approved ticket 1 that was
\* proposed with its keys in the opposite order.
C8_Witness ==
    /\ DOMAIN tickets = {1, 2}
    /\ tickets[1].status = "approved"
    /\ tickets[1].payload = json_dumps(DictB(1), FALSE)
    /\ tickets[2].status = "pending"
    /\ result = Returned("insert_ticket", <<2, tickets[2].ticket_hash>>)

(***************************************************************************)
(* C9: list_pending_tickets returns exactly the rows whose status is       *)
(* pending, each once and as stored, the later created_at first; an        *)
(* approved or rejected ticket is not among them.                          *)
(***************************************************************************)
C9_ListPendingExactAndOrdered ==
    result.call = "list_pending_tickets" =>
        LET rows == result.ret
        IN  /\ result.exc = "none"
            /\ {rows[i].ticket_id : i \in DOMAIN rows} = PendingIds
            /\ Len(rows) = Cardinality(PendingIds)
            /\ \A i \in DOMAIN rows :
                  /\ rows[i] = tickets[rows[i].ticket_id]
                  /\ rows[i].status = "pending"
            /\ \A i, j \in DOMAIN rows :
                  i < j => TimeOf(rows[i].created_at) >= TimeOf(rows[j].created_at)

\* Two pending tickets created at different times have just been listed,
\* the later one first.
C9_Witness ==
    /\ result.call = "list_pending_tickets"
    /\ Len(result.ret) = 2
    /\ TimeOf(result.ret[1].created_at) > TimeOf(result.ret[2].created_at)

(***************************************************************************)
(* The log get_audit_log returns holds every approvals row and every       *)
(* rejections row once, tagged with its action (an approval with reason    *)
(* None, a rejection with its reason).                                     *)
(***************************************************************************)
LogHoldsEveryRowOnce(log) ==
    /\ Len(log) = Len(approvals) + Len(rejections)
    /\ \A i \in DOMAIN approvals :
          Cardinality({k \in DOMAIN log : log[k] = ApprovalEntry(approvals[i])}) = 1
    /\ \A i \in DOMAIN rejections :
          Cardinality({k \in DOMAIN log : log[k] = RejectionEntry(rejections[i])}) = 1
    /\ \A k \in DOMAIN log :
          /\ log[k].action \in {"approved", "rejected"}
          /\ log[k].action = "approved" => log[k].reason = NoValue

\* Place in the log of the entry of a performed action <<action, ticket_id>>.
PlaceOf(log, act) ==
    CHOOSE k \in DOMAIN log : log[k].action = act[1] /\ log[k].ticket_id = act[2]

(***************************************************************************)
(* What get_audit_log does guarantee: every row once, in non-decreasing    *)
(* order of the timestamps; of two entries with equal timestamps an        *)
(* approval comes before a rejection, and two of the same table come in    *)
(* the order they were performed.                                          *)
(***************************************************************************)
AuditLogOrderedByTimestamp ==
    result.call = "get_audit_log" =>
        LET log == result.ret
        IN  /\ LogHoldsEveryRowOnce(log)
            /\ \A a, b \in DOMAIN log :
                  a < b =>
                    /\ TimeOf(log[a].timestamp) <= TimeOf(log[b].timestamp)
                    /\ log[a].timestamp = log[b].timestamp =>
                          ~(log[a].action = "rejected" /\ log[b].action = "approved")
            /\ \A i, j \in DOMAIN performed :
                  (/\ i < j
                   /\ performed[i][1] = performed[j][1]
                   /\ log[PlaceOf(log, performed[i])].timestamp
                        = log[PlaceOf(log, performed[j])].timestamp)
                  => PlaceOf(log, performed[i]) < PlaceOf(log, performed[j])

\* The log of a rejection followed, at a later clock reading, by an
\* approval: the rejection is first although approvals are read first.
AuditLogSortMoves ==
    /\ result.call = "get_audit_log"
    /\ performed = <<<<"rejected", 1>>, <<"approved", 2>>>>
    /\ Len(result.ret) = 2
    /\ result.ret[1].action = "rejected"
    /\ result.ret[2].action = "approved"
    /\ TimeOf(result.ret[1].timestamp) < TimeOf(result.ret[2].timestamp)

(***************************************************************************)
(* C10 as claimed: the log holds every row once, in non-decreasing order   *)
(* of the timestamps, and an action performed earlier comes before one     *)
(* performed later.                                                        *)
(***************************************************************************)
C10_Original ==
    result.call = "get_audit_log" =>
        LET log == result.ret
        IN  /\ LogHoldsEveryRowOnce(log)
            /\ \A a, b \in DOMAIN log :
                  a < b => TimeOf(log[a].timestamp) <= TimeOf(log[b].timestamp)
            /\ \A i, j \in DOMAIN performed :
                  i < j => PlaceOf(log, performed[i]) < PlaceOf(log, performed[j])

(***************************************************************************)
(* C11: for every configured threshold the weekly-drawdown check blocks    *)
(* iff weekly_pnl_pct < -threshold (a P&L equal to -threshold passes, a    *)
(* lower one is blocked), the VIX-percentile check blocks iff percentile   *)
(* >= limit, and the VIX-spike check blocks iff change > limit.            *)
(***************************************************************************)
Called(fn) == calc # NoValue /\ calc.fn = fn

C11_ThresholdComparisons ==
    /\ Called("check_weekly_drawdown") =>
          LET threshold == calc.self.weekly_drawdown_pct
              weekly_pnl_pct == calc.args[1]
          IN  /\ calc.out <=> weekly_pnl_pct < 0 - threshold
              /\ weekly_pnl_pct = 0 - threshold => ~calc.out
              /\ weekly_pnl_pct = 0 - threshold - 1 => calc.out
    /\ Called("check_vix_percentile") =>
          /\ calc.out <=> calc.args[1] >= calc.self.vix_percentile_limit
          /\ calc.args[1] = calc.self.vix_percentile_limit => calc.out
    /\ Called("check_vix_spike") =>
          /\ calc.out <=> calc.args[1] > calc.self.vix_spike_pct
          /\ calc.args[1] = calc.self.vix_spike_pct => ~calc.out

\* A breaker built with a threshold of its own was asked about a weekly
\* P&L exactly at minus that threshold, and did not block.
C11_Witness ==
    /\ Called("check_weekly_drawdown")
    /\ calc.self.weekly_drawdown_pct # DEFAULT_WEEKLY_DRAWDOWN_PCT
    /\ calc.self.weekly_drawdown_pct > 0
    /\ calc.args[1] = 0 - calc.self.weekly_drawdown_pct
    /\ calc.out = FALSE

(***************************************************************************)
(* C12: check_all allows trading iff its reasons are empty, which is iff   *)
(* no check fires; each check that fires adds its reason whatever the      *)
(* others do, so the reasons are as many as the checks that fire; with     *)
(* regime_label and macro_proximity_elevated None only the first four      *)
(* checks can add a reason.                                                *)
(***************************************************************************)
\* Which checks hold of the arguments of a check_all call, said directly.
FiredChecks(self, a) ==
    LET events == a[5]
    IN  [weekly  |-> a[2] < 0 - self.weekly_drawdown_pct,
         pctl    |-> a[3] >= self.vix_percentile_limit,
         spike   |-> a[4] > self.vix_spike_pct,
         macro   |-> \E i \in DOMAIN events :
                        /\ events[i] # <<>>
                        /\ events[i][1][2] # NoValue
                        /\ events[i][1][2].kind = "isodate"
                        /\ events[i][1][2].repr - a[1] <= self.macro_blackout_days
                        /\ a[1] - events[i][1][2].repr <= self.macro_blackout_days,
         regime  |-> a[6] = Str("stressed"),
         elevated |-> a[7] = Bool(TRUE)]

ReasonOf ==
    [weekly |-> "Weekly P&L drawdown", pctl |-> "VIX percentile",
     spike |-> "VIX day-over-day spike",
     macro |-> "Inside macro-event blackout window",
     regime |-> "Regime is stressed", elevated |-> "Macro proximity elevated"]

InSeq(x, seq) == \E i \in DOMAIN seq : seq[i] = x

C12_CheckAllCollectsEveryReason ==
    Called("check_all") =>
        LET fired == FiredChecks(calc.self, calc.args)
            reasons == calc.out.reasons
        IN  /\ calc.out.trading_allowed <=> reasons = <<>>
            /\ reasons = <<>> <=> \A c \in DOMAIN fired : ~fired[c]
            /\ \A c \in DOMAIN fired : fired[c] <=> InSeq(ReasonOf[c], reasons)
            /\ Len(reasons) = Cardinality({c \in DOMAIN fired : fired[c]})
            /\ (calc.args[6] = NoValue /\ calc.args[7] = NoValue)
                 => \A i \in DOMAIN reasons :
                       reasons[i] \in {ReasonOf.weekly, ReasonOf.pctl,
                                       ReasonOf.spike, ReasonOf.macro}

\* A check_all call in which all six conditions fired at once.
C12_Witness ==
    /\ Called("check_all")
    /\ Len(calc.out.reasons) = 6
    /\ ~calc.out.trading_allowed

\* The arguments and the return value of the last evaluate_ticket_risk call.
RiskArg(i) == calc.args[i]
RiskReasons == {calc.out.reasons[i] : i \in 1..Len(calc.out.reasons)}

\* C13: for every equity above zero, a ticket whose max loss is exactly
\* 1.5% of equity is not flagged by the per-trade limit and any larger one
\* (a dollar over) is flagged with the 'Trade max loss' reason; the weekly
\* cap (existing weekly max losses plus the ticket's, over 5%) and the kill
\* switch (a realized loss over 3%) compare strictly in the same way.
C13_LimitsAreStrict ==
    (Called("evaluate_ticket_risk") /\ RiskArg(4) > 0) =>
        LET ticket_max_loss == RiskArg(1)
            equity == RiskArg(4)
            weekly_realized_pnl == RiskArg(5)
            existing_weekly_max_losses == RiskArg(6)
        IN  /\ (TradeMaxLoss \in RiskReasons)
                  <=> (ticket_max_loss * 1000 >= 15 * equity + 1)
            /\ (WeeklyMaxLoss \in RiskReasons)
                  <=> ((existing_weekly_max_losses + ticket_max_loss) * 100 >= 5 * equity + 1)
            /\ (KillSwitch \in RiskReasons)
                  <=> (0 - weekly_realized_pnl) * 100 >= 3 * equity + 1

\* A ticket exactly at all three limits of a positive equity passes.
C13_Witness ==
    /\ Called("evaluate_ticket_risk")
    /\ RiskArg(4) > 0
    /\ RiskArg(1) * 1000 = 15 * RiskArg(4)
    /\ (RiskArg(6) + RiskArg(1)) * 100 = 5 * RiskArg(4)
    /\ (0 - RiskArg(5)) * 100 = 3 * RiskArg(4)
    /\ calc.out.reasons = <<>>
    /\ calc.out.risk_limits_pass

\* The limits a call breaches, decided from its arguments alone.
BreachedLimits ==
    LET ticket_max_loss == RiskArg(1)
        equity == RiskArg(4)
        weekly_realized_pnl == RiskArg(5)
        existing_weekly_max_losses == RiskArg(6)
    IN  {limit \in {TradeMaxLoss, WeeklyMaxLoss, KillSwitch} :
            \/ limit = TradeMaxLoss /\ ticket_max_loss * 1000 > 15 * equity
            \/ limit = WeeklyMaxLoss
                 /\ (existing_weekly_max_losses + ticket_max_loss) * 100 > 5 * equity
            \/ limit = KillSwitch /\ weekly_realized_pnl < 0
                 /\ (0 - weekly_realized_pnl) * 100 > 3 * equity}

\* C14: evaluate_ticket_risk returns risk_limits_pass true exactly when
\* its reasons list is empty; for a positive equity the list holds one
\* reason for each breached limit among the per-trade cap, the weekly cap
\* and the kill switch, whichever others are breached; and the kill switch
\* reason never appears when weekly_realized_pnl is zero or positive.
C14_ReasonsCountBreachedLimits ==
    Called("evaluate_ticket_risk") =>
        /\ calc.out.risk_limits_pass <=> (calc.out.reasons = <<>>)
        /\ RiskArg(4) > 0 =>
              /\ Len(calc.out.reasons) = Cardinality(BreachedLimits)
              /\ RiskReasons = BreachedLimits
        /\ RiskArg(5) >= 0 => KillSwitch \notin RiskReasons

\* All three limits are breached in one call and all three are reported.
C14_Witness ==
    /\ Called("evaluate_ticket_risk")
    /\ RiskArg(4) > 0
    /\ Cardinality(BreachedLimits) = 3
    /\ Len(calc.out.reasons) = 3
    /\ ~calc.out.risk_limits_pass

\* A gain larger than the kill-switch drawdown does not fire the switch.
C14_GainWitness ==
    /\ Called("evaluate_ticket_risk")
    /\ RiskArg(4) > 0
    /\ RiskArg(5) * 100 > 3 * RiskArg(4)
    /\ KillSwitch \notin RiskReasons

\* The two counts of C15, from the arguments of the last call.
RiskOffCount ==
    (IF calc.args[1].regime = "stressed" THEN 2 ELSE 0)
  + (IF calc.args[2].regime = "high" THEN 1 ELSE 0)
  + (IF calc.args[3].gamma_direction = "negative" THEN 1 ELSE 0)
  + (IF calc.args[4].elevated THEN 1 ELSE 0)

RiskOnCount ==
    (IF calc.args[1].regime = "compressed" THEN 2 ELSE 0)
  + (IF calc.args[2].regime = "low" THEN 1 ELSE 0)
  + (IF calc.args[3].gamma_direction = "positive" THEN 1 ELSE 0)

\* C15: over every combination of vol regime, correlation regime, gamma
\* direction and macro flag, _determine_risk_appetite returns 'risk_off'
\* exactly when the risk-off count (stressed 2, high correlation 1, negative
\* gamma 1, macro elevated 1) is at least 3, 'risk_on' exactly when the
\* risk-on count (compressed 2, low correlation 1, positive gamma 1) is at
\* least 3, 'neutral' otherwise, and 'neutral' whenever the counts are equal.
C15_RiskAppetiteByCounts ==
    Called("_determine_risk_appetite") =>
        /\ (calc.out = Str("risk_off")) <=> (RiskOffCount >= 3)
        /\ (calc.out = Str("risk_on")) <=> (RiskOnCount >= 3)
        /\ (calc.out = Str("neutral")) <=> (RiskOffCount < 3 /\ RiskOnCount < 3)
        /\ RiskOffCount = RiskOnCount => calc.out = Str("neutral")

\* Three risk-off signals without a stressed vol regime, against a
\* compressed one: the label is risk_off although the risk-on count is 2.
C15_Witness ==
    /\ Called("_determine_risk_appetite")
    /\ RiskOffCount = 3
    /\ RiskOnCount = 2
    /\ calc.out = Str("risk_off")

\* Equal counts above zero give neutral.
C15_TieWitness ==
    /\ Called("_determine_risk_appetite")
    /\ RiskOffCount = 2
    /\ RiskOnCount = 2
    /\ calc.out = Str("neutral")

\* The gate conditions of C16 that hold for the last should_trade call,
\* decided from its arguments, each named by the reason it is to produce.
GateReasons == {calc.out.reasons[i] : i \in 1..Len(calc.out.reasons)}
EventLabels == {"FOMC", "CPI", "NFP"}

GateConditions ==
    LET now == calc.args[1]
        calendar == calc.args[2]
        hist == calc.args[3]
        classification == calc.args[4]
        within(i) == /\ calendar[i][1].kind = "isodatetime"
                     /\ calendar[i][1].repr - now \in 0..48
    IN  {<<"stressed", classification.vol_regime = Str("stressed")>>,
         <<"macro", classification.elevated = Bool(TRUE)>>,
         <<"spike", /\ classification.vix_change_pct # NoValue
                    /\ classification.vix_change_pct.repr > 10>>,
         <<"ceiling", /\ classification.vix_current # NoValue
                      /\ classification.vix_current.repr > 35>>,
         <<"event", \E i \in 1..Len(calendar) : within(i)>>,
         <<"atr", /\ hist # NoValue
                  /\ hist.atr_20 > 0
                  /\ 2 * hist.atr_5 > 3 * hist.atr_20>>}

Holds(condition) == <<condition, TRUE>> \in GateConditions

C16_NoneWitness ==
    /\ Called("should_trade")
    /\ calc.args[4].vix_change_pct = NoValue
    /\ calc.args[4].vix_current = NoValue
    /\ calc.out.pass_trade

\* C17: calculate_greeks with T = 0 returns gamma, vega_per_1pct, theta and
\* rho_per_1pct exactly 0, the intrinsic value as price, and a delta set by
\* moneyness: 1 for a call with S > K, -1 for a put with S < K, 0 otherwise.
\* The code returns delta 0 for every expired put.
C17_Original ==
    (Called("calculate_greeks") /\ calc.args[3] = 0) =>
        LET S == calc.args[1]
            K == calc.args[2]
            option_type == calc.args[6]
            g == calc.out
        IN  /\ g.gamma = 0 /\ g.vega_per_1pct = 0 /\ g.theta = 0 /\ g.rho_per_1pct = 0
            /\ g.price = (IF option_type = "call"
                          THEN (IF S > K THEN S - K ELSE 0)
                          ELSE (IF K > S THEN K - S ELSE 0))
            /\ option_type = "call" => g.delta = (IF S > K THEN 1 ELSE 0)
            /\ option_type = "put" => g.delta = (IF S < K THEN 0 - 1 ELSE 0)

\* A leg dict with its legacy keys renamed to the canonical ones.
CanonicalName(key) ==
    CASE key = "option_type" -> "type"
      [] key = "action" -> "side"
      [] key = "quantity" -> "qty"
      [] OTHER -> key

Renamed(leg) ==
    IF leg.kind = "dict"
    THEN Dict([i \in 1..Len(leg.items) |->
                 <<CanonicalName(leg.items[i][1]), leg.items[i][2]>>])
    ELSE leg

UsesLegacyNames(leg) ==
    leg.kind = "dict" /\ Keys(leg.items) \cap {"option_type", "action", "quantity"} # {}

\* The arguments of the last build_trade_ticket call, by name.
BuildArg ==
    [legs |-> calc.args[3], mid_credit |-> calc.args[4], limit_credit |-> calc.args[7],
     regime_gate |-> calc.args[12], risk_gate |-> calc.args[13], exits |-> calc.args[15]]

LegItems == IF BuildArg.legs = NoValue THEN <<>> ELSE BuildArg.legs.items

\* C20: build_trade_ticket always returns status 'pending'; exits not
\* supplied are 50% take-profit, 2x stop-loss, 21-day time stop; a gate not
\* supplied is passed with no reasons (and a zero portfolio_after for the
\* risk gate); limit_credit not supplied is mid_credit; and legs given
\* under the legacy names (option_type, action, quantity) become the legs
\* the same dicts give under the canonical names (type, side, qty).
C20_BuilderDefaults ==
    Called("build_trade_ticket") =>
        LET ticket == calc.out
        IN  /\ ticket.status = "pending"
            /\ BuildArg.exits = NoValue =>
                  /\ ticket.exits.take_profit_pct = 50
                  /\ ticket.exits.stop_loss_multiple = 2
                  /\ ticket.exits.time_stop_days = 21
            /\ BuildArg.regime_gate = NoValue =>
                  ticket.regime_gate.passed /\ ticket.regime_gate.reasons = <<>>
            /\ BuildArg.risk_gate = NoValue =>
                  /\ ticket.risk_gate.passed /\ ticket.risk_gate.reasons = <<>>
                  /\ \A key \in {"delta", "vega", "gamma", "max_loss_trade", "max_loss_week"} :
                        ticket.risk_gate.portfolio_after[key] = 0
            /\ BuildArg.limit_credit = NoValue => ticket.limit_credit = BuildArg.mid_credit
            /\ ticket.legs = TicketLegs([i \in 1..Len(LegItems) |-> Renamed(LegItems[i])])

\* A call with only a legacy leg and nothing else supplied: the leg comes
\* out with the type, side and quantity it was given.
C20_Witness ==
    /\ Called("build_trade_ticket")
    /\ Len(LegItems) = 1
    /\ UsesLegacyNames(LegItems[1])
    /\ BuildArg.exits = NoValue
    /\ BuildArg.regime_gate = NoValue
    /\ BuildArg.risk_gate = NoValue
    /\ BuildArg.limit_credit = NoValue
    /\ calc.out.status = "pending"
    /\ calc.out.legs = <<TicketLeg("call", "buy", 460, 2, IntVal(0 - 13), NoValue, NoValue,
                                   IntVal(4))>>

\* The ticket and the positions the last evaluate_ticket call was given.
GivenTicket == calc.args[1]
GivenPositions == calc.args[2]

\* C19: evaluate_ticket only replaces the ticket's risk_gate, whose passed,
\* reasons and portfolio_after are those of evaluate_ticket_risk; it leaves
\* every other field of the ticket (ticket_id, status, regime_gate, legs,
\* credits, max_loss, exits among them) as it was, and leaves the
\* existing_positions list it was given as it was.
C19_OnlyRiskGateChanges ==
    Called("evaluate_ticket") =>
        LET ticket == calc.out.ticket
            gate == ticket.risk_gate
            over == GivenTicket.max_loss * 1000 > 15 * calc.args[3]
        IN  /\ \A field \in (DOMAIN GivenTicket) \ {"risk_gate"} :
                  ticket[field] = GivenTicket[field]
            /\ DOMAIN ticket = DOMAIN GivenTicket
            /\ calc.out.existing_positions = GivenPositions
            /\ gate.passed <=> ~over
            /\ gate.reasons = (IF over THEN <<TradeMaxLoss>> ELSE <<>>)
            /\ gate.portfolio_after.max_loss_trade = GivenTicket.max_loss
            /\ gate.portfolio_after.max_loss_week = GivenTicket.max_loss
            /\ gate.portfolio_after.delta
                  = round(SumOf(GivenPositions, "delta")
                          + CombinedGreek(GivenTicket.legs, "delta"), RoundStep)

\* A ticket with legs, an id and a failed regime gate, over the cap,
\* evaluated against a portfolio that holds a position: the risk gate
\* fails and the rest is as given.
C19_Witness ==
    /\ Called("evaluate_ticket")
    /\ GivenPositions # <<>>
    /\ GivenTicket.legs # <<>>
    /\ GivenTicket.ticket_id # NoValue
    /\ ~GivenTicket.regime_gate.passed
    /\ GivenTicket.risk_gate.passed
    /\ ~calc.out.ticket.risk_gate.passed
    /\ calc.out.ticket.regime_gate = GivenTicket.regime_gate
    /\ calc.out.existing_positions = GivenPositions

(***************************************************************************)
(* C21: POST /api/execute answers 404 for an id that is not in memory and  *)
(* 409 for a ticket whose in-memory status is not pending, changing        *)
(* nothing; on a pending ticket it sets the status to approved or rejected *)
(* as the action says and appends one entry to the execution log.  So a    *)
(* ticket never has more than one entry in the log, and a ticket that is   *)
(* approved or rejected is not in the answer of GET                        *)
(* /api/trade-ticket/pending.                                              *)
(***************************************************************************)
Answered(route) == response # NoValue /\ response.route = route

LogEntriesOf(t) == {i \in DOMAIN execution_log : execution_log[i].ticket_id = t}

C21_ExecuteStep ==
    (response' # NoValue /\ response'.route = "execute") =>
        LET code == response'.code
            t == response'.body[IF code = 200 THEN 1 ELSE 2]
            kept == /\ pending_tickets' = pending_tickets
                    /\ execution_log' = execution_log
        IN  CASE code = 400 -> kept
              [] code = 404 -> t \notin DOMAIN pending_tickets /\ kept
              [] code = 409 -> /\ t \in DOMAIN pending_tickets
                               /\ pending_tickets[t].status # "pending"
                               /\ kept
              [] code = 200 ->
                   /\ t \in DOMAIN pending_tickets
                   /\ pending_tickets[t].status = "pending"
                   /\ pending_tickets'[t].status = response'.body[2]
                   /\ \E action \in {"approve", "reject"} :
                         /\ pending_tickets'[t].status
                               = (IF action = "approve" THEN "approved" ELSE "rejected")
                         /\ Len(execution_log') = Len(execution_log) + 1
                         /\ SubSeq(execution_log', 1, Len(execution_log)) = execution_log
                         /\ execution_log'[Len(execution_log')].ticket_id = t
                         /\ execution_log'[Len(execution_log')].action = action
                   /\ DOMAIN pending_tickets' = DOMAIN pending_tickets
                   /\ \A u \in DOMAIN pending_tickets \ {t} :
                         pending_tickets'[u] = pending_tickets[u]
              [] OTHER -> FALSE

C21_ExecuteOncePerTicket ==
    /\ [][C21_ExecuteStep]_vars
    /\ [](\A t \in DOMAIN pending_tickets :
             Cardinality(LogEntriesOf(t)) <= 1)
    /\ [](Answered("trade-ticket/pending") =>
             \A i \in DOMAIN response.body :
                pending_tickets[response.body[i]].status = "pending")

\* A second /api/execute on an approved ticket was answered 409, a rejected
\* ticket is in memory too, and each has its one entry in the log.
C21_Witness ==
    /\ Answered("execute")
    /\ response.code = 409
    /\ \E t, u \in DOMAIN pending_tickets :
          /\ response.body = Already(t, "approved")
          /\ pending_tickets[t].status = "approved"
          /\ pending_tickets[u].status = "rejected"
          /\ Cardinality(LogEntriesOf(t)) = 1
          /\ Cardinality(LogEntriesOf(u)) = 1

(***************************************************************************)
(* C22 as claimed: the idempotency branch of approve_ticket and            *)
(* reject_ticket is never taken.  Whenever a call is past the status guard *)
(* and looks up its audit row, the approvals table (for reject_ticket, the *)
(* rejections table) holds no row with the ticket's id and hash.           *)
(***************************************************************************)
C22_Original ==
    \A p \in Callers :
        conn[p].pc = "select_existing"
          => Existing(AuditTable(conn[p].call), conn[p].ticket_id,
                      conn[p].row.ticket_hash) = {}

(***************************************************************************)
(* C23 as claimed: the ticket that POST /api/trade-tickets/spy emits for a *)
(* request carries a risk gate whose passed flag is the hard-limit verdict *)
(* of evaluate_ticket_risk for the ticket's max_loss and the request's     *)
(* account inputs, in demo mode and through generate_trade_ticket alike;   *)
(* a ticket over a hard limit is never emitted with risk_gate.passed true. *)
(***************************************************************************)
C23_ProposeStep ==
    \A equity \in Equities, regime_passed \in BOOLEAN :
        propose_spy_tickets(equity, regime_passed) =>
            LET ticket == pending_tickets'[response'.body[1]]
            IN  ticket.risk_gate.passed
                    <=> risk_limits_pass(ticket.max_loss, equity, 0, 0)

C23_Original == [][C23_ProposeStep]_vars

(***************************************************************************)
(* C24.  The net position of a ticket, written out leg by leg: for each    *)
(* Greek the sum of sign * qty * value with sign +1 for a 'buy' leg and -1 *)
(* for every other side and a missing value counted as 0, and the notional *)
(* the sum of |qty * price * 100|.                                         *)
(***************************************************************************)
NetGreek(legs, greek) ==
    SumOf([i \in DOMAIN legs |->
              [term |-> (IF legs[i].side = "buy" THEN 1 ELSE 0 - 1) * legs[i].qty
                          * (IF legs[i][greek] = NoValue THEN 0 ELSE legs[i][greek].repr)]],
          "term")

NetNotional(legs) ==
    SumOf([i \in DOMAIN legs |->
              [term |-> Abs(legs[i].qty
                            * (IF legs[i].price = NoValue THEN 0 ELSE legs[i].price.repr)
                            * 100)]],
          "term")

Greeks == {"delta", "vega", "gamma"}

\* C24 as claimed: the net position is as above, and the portfolio_after
\* Greeks written to the risk gate equal the Greeks of the existing
\* positions plus the net position.
C24_Original ==
    Called("evaluate_ticket") =>
        /\ \A greek \in Greeks :
              calc.out.new_position[greek] = NetGreek(GivenTicket.legs, greek)
        /\ calc.out.new_position.notional = NetNotional(GivenTicket.legs)
        /\ \A greek \in Greeks :
              calc.out.ticket.risk_gate.portfolio_after[greek]
                  = SumOf(GivenPositions, greek) + NetGreek(GivenTicket.legs, greek)

\* C24: the net position is as above, and each portfolio_after Greek
\* written to the risk gate is the sum of that Greek over the existing
\* positions and the net position, rounded as calculate_portfolio_risk
\* rounds its report (delta and gamma to 4 decimals, vega to 2).
C24_NetPositionAndRoundedGreeks ==
    Called("evaluate_ticket") =>
        /\ \A greek \in Greeks :
              calc.out.new_position[greek] = NetGreek(GivenTicket.legs, greek)
        /\ calc.out.new_position.notional = NetNotional(GivenTicket.legs)
        /\ \A greek \in Greeks :
              calc.out.ticket.risk_gate.portfolio_after[greek]
                  = round(SumOf(GivenPositions, greek)
                          + NetGreek(GivenTicket.legs, greek), RoundStep)

\* A ticket with a buy leg and a sell leg that carry a delta and a price
\* but no vega, evaluated against a portfolio that holds a position: the
\* net delta is not a multiple of the rounding step, and the delta written
\* to the gate is the rounded sum.
C24_Witness ==
    /\ Called("evaluate_ticket")
    /\ GivenPositions # <<>>
    /\ \E i, j \in DOMAIN GivenTicket.legs :
          /\ GivenTicket.legs[i].side = "buy"
          /\ GivenTicket.legs[j].side = "sell"
          /\ GivenTicket.legs[i].delta # NoValue
          /\ GivenTicket.legs[j].vega = NoValue
    /\ calc.out.new_position.delta % RoundStep # 0
    /\ calc.out.new_position.notional > 0
    /\ calc.out.ticket.risk_gate.portfolio_after.delta
          # SumOf(GivenPositions, "delta") + calc.out.new_position.delta

(***************************************************************************)
(* C25.  The number of neighbouring pairs at most 3 days apart among the   *)
(* dates in ascending order, counted from the days themselves: a day that  *)
(* occurs m times gives m - 1 pairs with gap 0, and two days with no date  *)
(* between them give one pair when they are at most 3 days apart.          *)
(***************************************************************************)
DaysOf(dates) == {dates[i].repr : i \in DOMAIN dates}

ClosePairs(dates) ==
    LET days == DaysOf(dates)
        repeats == Len(dates) - Cardinality(days)
        neighbours == {pair \in days \X days :
                          /\ pair[1] < pair[2]
                          /\ pair[2] - pair[1] <= 3
                          /\ ~\E d \in days : pair[1] < d /\ d < pair[2]}
    IN  repeats + Cardinality(neighbours)

\* C25: _assess_earnings_cluster_risk returns 'high' iff at least 3
\* neighbouring pairs of the sorted dates are at most 3 days apart, 'medium'
\* iff 1 or 2 are and 'low' iff none is (a list of fewer than two dates
\* among them), whatever the order of the list; calculate_portfolio_risk
\* reports that level, and for an empty position list it returns the
\* snapshot of zeros with level 'low' and no dates.
C25_EarningsClusterLevel ==
    /\ Called("_assess_earnings_cluster_risk") =>
          LET pairs == ClosePairs(calc.args[1])
          IN  /\ calc.out.level \in {"high", "medium", "low"}
              /\ calc.out.level = "high" <=> pairs >= 3
              /\ calc.out.level = "medium" <=> pairs \in {1, 2}
              /\ calc.out.level = "low" <=> pairs = 0
              /\ calc.out.count = Len(calc.args[1])
              /\ Len(calc.out.clusters) = pairs
    /\ Called("calculate_portfolio_risk") =>
          LET positions == calc.args[1]
              known == SelectSeq([i \in DOMAIN positions |-> positions[i].earnings_date],
                                 LAMBDA d : d # NoValue)
          IN  /\ calc.out.earnings_cluster_risk
                    = (IF ClosePairs(known) >= 3 THEN "high"
                       ELSE IF ClosePairs(known) >= 1 THEN "medium" ELSE "low")
              /\ positions = <<>> =>
                    /\ calc.out.portfolio_delta = 0
                    /\ calc.out.portfolio_vega = 0
                    /\ calc.out.portfolio_gamma = 0
                    /\ calc.out.earnings_cluster_risk = "low"
                    /\ calc.out.earnings_cluster_detail
                          = [level |-> "low", count |-> 0, clusters |-> <<>>]

\* Four dates given out of order, each 3 days or less from the next once
\* sorted, but with a neighbour more than 3 days off in the order given:
\* the level is 'high'.
C25_Witness ==
    /\ Called("_assess_earnings_cluster_risk")
    /\ Len(calc.args[1]) = 4
    /\ calc.args[1][2].repr - calc.args[1][1].repr > 3
    /\ calc.args[1][3].repr < calc.args[1][2].repr
    /\ calc.out.level = "high"
    /\ \E k \in DOMAIN calc.out.clusters : calc.out.clusters[k].gap_days = 3

\* calculate_portfolio_risk on no positions returned the low snapshot.
C25_EmptyWitness ==
    /\ Called("calculate_portfolio_risk")
    /\ calc.args[1] = <<>>
    /\ calc.out.earnings_cluster_risk = "low"

(***************************************************************************)
(* C26: an approve_ticket or reject_ticket call that returns a record for  *)
(* ticket X changes X's status from pending to approved (rejected) and     *)
(* appends one row for X, the record returned, to approvals (rejections).  *)
(* X's payload, ticket_hash, symbol, strategy and created_at, every other  *)
(* ticket's row, every audit row there was and the other audit table stay  *)
(* as they were.                                                           *)
(***************************************************************************)
KeptColumns == {"ticket_id", "ticket_hash", "symbol", "strategy", "payload", "created_at"}

C26_SuccessStep ==
    \A x \in TicketIds, r \in Reasons :
        /\ approve_ticket(x) \/ reject_ticket(x, r)
        /\ result'.exc = "none"
        => /\ x \in DOMAIN tickets
           /\ DOMAIN tickets' = DOMAIN tickets
           /\ \A t \in DOMAIN tickets \ {x} : tickets'[t] = tickets[t]
           /\ \A column \in KeptColumns : tickets'[x][column] = tickets[x][column]
           /\ tickets[x].status = "pending"
           /\ result'.ret.ticket_id = x
           /\ result'.ret.ticket_hash = tickets[x].ticket_hash
           /\ IF result'.call = "approve_ticket"
              THEN /\ tickets'[x].status = "approved"
                   /\ approvals' = Append(approvals, result'.ret)
                   /\ rejections' = rejections
              ELSE /\ tickets'[x].status = "rejected"
                   /\ rejections' = Append(rejections, result'.ret)
                   /\ approvals' = approvals

C27_SameStatus ==
    \A t \in DOMAIN pending_tickets \cap DOMAIN tickets :
        pending_tickets[t].status = tickets[t].status

\* The second half of C27 as claimed: an in-memory status of approved or
\* rejected is never replaced by the other one.
C27_TerminalKept ==
    \A t \in DOMAIN pending_tickets :
        pending_tickets[t].status \in {"approved", "rejected"}
          => pending_tickets'[t].status = pending_tickets[t].status

C27_Original == []C27_SameStatus /\ [][C27_TerminalKept]_vars

(***************************************************************************)
(* C28: in _determine_risk_appetite the risk-off count and the risk-on     *)
(* count are never both 3 or more, whatever the vol regime, correlation    *)
(* regime, gamma direction and macro flag; so the label returned is the    *)
(* one the two threshold tests give in the opposite order as well.         *)
(***************************************************************************)
RiskOnTestedFirst ==
    IF RiskOnCount >= 3 THEN Str("risk_on")
    ELSE IF RiskOffCount >= 3 THEN Str("risk_off")
    ELSE Str("neutral")

C28_CountsNeverBothReachThree ==
    Called("_determine_risk_appetite") =>
        /\ ~(RiskOffCount >= 3 /\ RiskOnCount >= 3)
        /\ RiskOffCount >= 3 => RiskOnCount <= 2
        /\ RiskOnCount >= 3 => RiskOffCount <= 2
        /\ calc.out = RiskOnTestedFirst

\* The risk-on count at its most, 4, with the one risk-off signal that is
\* left, the macro flag: the label is risk_on.
C28_Witness ==
    /\ Called("_determine_risk_appetite")
    /\ RiskOnCount = 4
    /\ RiskOffCount = 1
    /\ calc.out = Str("risk_on")

(***************************************************************************)
(* C29: with equity of zero or less evaluate_ticket_risk tests none of the *)
(* three hard limits: it returns risk_limits_pass true and no reasons,     *)
(* whatever ticket_max_loss, weekly_realized_pnl and                       *)
(* existing_weekly_max_losses are.                                         *)
(***************************************************************************)
C29_NoEquityPassesEveryLimit ==
    (Called("evaluate_ticket_risk") /\ RiskArg(4) <= 0) =>
        /\ calc.out.risk_limits_pass
        /\ calc.out.reasons = <<>>
        /\ calc.out.max_loss_trade = RiskArg(1)
        /\ calc.out.max_loss_week = RiskArg(6) + RiskArg(1)

\* An account in deficit, the demo ticket's max loss and a realized loss
\* of the same size this week: the call passes the ticket.
C29_Witness ==
    /\ Called("evaluate_ticket_risk")
    /\ RiskArg(4) < 0
    /\ RiskArg(1) = DemoMaxLoss
    /\ RiskArg(5) = 0 - DemoMaxLoss
    /\ calc.out.risk_limits_pass
    /\ calc.out.reasons = <<>>

(***************************************************************************)
(* C30: insert_ticket with an id that is in the tickets table raises       *)
(* IntegrityError (the primary key) and leaves the three tables as they    *)
(* were, whatever the status of the row and whatever the new dict holds:   *)
(* the row keeps its status, hash, payload and created_at, and the table   *)
(* keeps one row for the id.                                               *)
(***************************************************************************)
C30_ReinsertStep ==
    \A d \in TicketDicts \cup ReproposedDicts :
        /\ insert_ticket(d)
        /\ IdOf(d) \in DOMAIN tickets
        => /\ result'.exc = "IntegrityError"
           /\ result'.ret = NoValue
           /\ DOMAIN tickets' = DOMAIN tickets
           /\ tickets'[IdOf(d)] = tickets[IdOf(d)]
           /\ tickets'[IdOf(d)].status = tickets[IdOf(d)].status
           /\ tickets'[IdOf(d)].ticket_hash = tickets[IdOf(d)].ticket_hash
           /\ Tables' = Tables

C30_ReinsertFailsAndKeepsRow == [][C30_ReinsertStep]_vars

\* insert_ticket has just been refused while every ticket in the table is
\* approved or rejected, one of each: the id it was given is one of theirs.
C30_Witness ==
    /\ result = Raised("insert_ticket", "IntegrityError",
                       <<"UNIQUE constraint failed: tickets.ticket_id">>)
    /\ \E t, u \in DOMAIN tickets :
          tickets[t].status = "approved" /\ tickets[u].status = "rejected"
    /\ \A t \in DOMAIN tickets : tickets[t].status # "pending"

====
